---- MODULE Spec2Model ----
(***************************************************************************)
(* Dual-token (access / refresh) JWT authentication core with a Redis      *)
(* token blacklist: JWTStrategy, RedisTokenBlacklistManager, Authenticator *)
(* and the login / logout / refresh routes; the Signal dispatcher that     *)
(* wires the lifecycle hooks; and the startup and shutdown handlers that   *)
(* close the connection pools of the blacklist's Redis client.             *)
(*                                                                         *)
(* Time is an integer clock.  Lifetimes are scaled down to a few clock      *)
(* units so that expiry of tokens and of blacklist entries happens inside  *)
(* the explored horizon, the refresh token outliving the access token.     *)
(***************************************************************************)
EXTENDS Integers, Sequences, FiniteSets, TLC

VARIABLES now,        \* wall clock (datetime.now / Redis server clock)
          users,      \* the user table: a set of rows, at most one per id
          issued,     \* every token string write_token has produced so far
          blacklist,  \* Redis db 0 of the blacklist: set of [key, value, expire_at]
          redis_up,   \* whether the Redis server answers
          last,       \* outcome of the most recent operation
          revoked     \* history: the tokens of the completed logouts that
                      \* presented a valid access and a valid refresh token,
                      \* since the store was last cleared

\* The Signal instance of core/dispatch/dispatcher.py
VARIABLES receivers,               \* Signal.receivers: list of (lookup_key, receiver)
          _dead_receivers,         \* Signal._dead_receivers
          sender_receivers_cache,  \* Signal.sender_receivers_cache
          use_caching,             \* Signal.use_caching
          alive,                   \* the objects the interpreter has not collected
          finalizers,              \* collectable objects carrying a weakref.finalize
                                   \* of the Signal
          sent,                    \* outcome of the most recent Signal operation
          connects                 \* history: for each lookup_key in the list, the
                                   \* (receiver, sender, dispatch_uid) that registered
                                   \* it and how often (1, or 2 for more) that triple
                                   \* was connected since

\* The RedisClient of the token blacklist manager
VARIABLES _cache   \* RedisTokenBlacklistManager._cache: not yet created
                   \* (Nothing), or the client with its connection pools

\* jwt_generator.py called with any lifetime
VARIABLES minted   \* history: for each generate_jwt call made with a chosen
                   \* lifetime, [token, at, lifetime]

\* Calls of the Signal's coroutines that are in flight together
VARIABLES lock,    \* Signal.lock: free (Nothing) or held by a task
          tasks    \* for each task, the call it runs or has finished: the
                   \* point it is at, its local receivers, what it returned

auth_vars == <<now, users, issued, blacklist, redis_up, last, revoked>>

signal_vars == <<receivers, _dead_receivers, sender_receivers_cache,
                 use_caching, alive, finalizers, sent, connects>>

vars == <<now, users, issued, blacklist, redis_up, last, revoked,
          receivers, _dead_receivers, sender_receivers_cache,
          use_caching, alive, finalizers, sent, connects, _cache, minted, lock, tasks>>

----------------------------------------------------------------------------
(* Bounds of the exploration *)

MaxClock == 3
MaxIssued == 3
\* longest receiver list explored
MaxReceivers == 2
\* most connections a pool opens (max_connections of the pool, scaled down)
MaxConnections == 2
\* longest lifetime, in clock units, a token is generated with
MaxLifetime == 2

\* ids of the rows of the user table, and an id that never has a row
UserIds == {1, 2}
GhostId == CHOOSE i \in 1..9 : i \notin UserIds

----------------------------------------------------------------------------
(* Settings: core/config/auth.py *)

\* Python's None: "None" where a string is expected; an optional non-string
\* value is the empty set (None) or a singleton
None == "None"
Nothing == {}
Some(x) == {x}
The(s) == CHOOSE x \in s : TRUE

TOKEN_TYPE == "token_type"
ACCESS_TOKEN == "access_token"
REFRESH_TOKEN == "refresh_token"
TokenTypes == {ACCESS_TOKEN, REFRESH_TOKEN}

TOKEN_AUDIENCE == "backend:authentication"
ALGORITHM == "RS256"

\* JWTStrategy.lifetime_seconds, in clock units
lifetime_seconds == (ACCESS_TOKEN :> 2) @@ (REFRESH_TOKEN :> 3)

key_prefix == "user"

----------------------------------------------------------------------------
(* Token strings.  A token string is modelled by what it decodes to:       *)
(*   wf   - it is a well-formed JWS compact serialization with JSON body   *)
(*   alg  - the alg named in its header                                    *)
(*   key  - the key its signature was produced with                        *)
(*   sub, typ, exp, aud - the claims (None = claim absent)                 *)
(***************************************************************************)

PRIVATE_KEY == "jwt-private.pem"
PUBLIC_KEY == "jwt-public.pem"
OTHER_KEY == "attacker.pem"

\* str(user.id)
str(id) == ToString(id)

\* expiry used by handcrafted tokens: beyond every clock value explored
FarExp == MaxClock + 5

Token(sub, typ, exp) ==
  [wf |-> TRUE, alg |-> ALGORITHM, key |-> PRIVATE_KEY,
   sub |-> sub, typ |-> typ, exp |-> exp, aud |-> TOKEN_AUDIENCE]

\* Token strings a client can present that write_token did not produce.
Handcrafted ==
  LET base == Token(str(1), ACCESS_TOKEN, FarExp) IN
  { [base EXCEPT !.key = OTHER_KEY],                       \* bad signature
    [base EXCEPT !.alg = "HS256", !.key = PUBLIC_KEY],     \* alg confusion
    [base EXCEPT !.aud = "other:audience"],                \* wrong audience
    [base EXCEPT !.aud = None],                            \* no aud claim
    [base EXCEPT !.sub = None],                            \* no sub claim
    [base EXCEPT !.typ = None],                            \* no token_type claim
    [base EXCEPT !.sub = "abc"],                           \* malformed subject
    [base EXCEPT !.sub = str(GhostId)],                    \* unknown principal
    [base EXCEPT !.wf = FALSE] }                           \* not a JWT at all

Presentable == issued \cup Handcrafted

----------------------------------------------------------------------------
(* jwt_generator.py *)

\* generate_jwt that leaves the aud claim out of the payload
generate_jwt_no_aud(data, private_key, audience, lifetime, algorithm) ==
  [wf |-> TRUE, alg |-> algorithm, key |-> private_key,
   sub |-> data.sub, typ |-> data.typ,
   exp |-> now + lifetime, aud |-> None]

\* generate_jwt: payload = data + exp + aud, signed with the private key
generate_jwt(data, private_key, audience, lifetime, algorithm) ==
  [wf |-> TRUE, alg |-> algorithm, key |-> private_key,
   sub |-> data.sub, typ |-> data.typ,
   exp |-> now + lifetime, aud |-> audience]

\* Whether the signature of t verifies under public_key with algorithm alg.
\* An RS256 signature verifies iff it was made with the matching private key.
SignatureVerifies(t, public_key, alg) ==
  /\ alg = "RS256"
  /\ public_key = PUBLIC_KEY
  /\ t.key = PRIVATE_KEY

\* decode_jwt that does not compare the aud claim with the audience
decode_jwt_any_audience(encoded_jwt, public_key, audience, algorithms) ==
  LET fail(e) == [err |-> e, sub |-> None, typ |-> None, exp |-> 0] IN
  IF ~encoded_jwt.wf THEN fail("DecodeError")
  ELSE IF encoded_jwt.alg \notin algorithms THEN fail("InvalidAlgorithmError")
  ELSE IF ~SignatureVerifies(encoded_jwt, public_key, encoded_jwt.alg)
       THEN fail("InvalidSignatureError")
  ELSE IF encoded_jwt.exp <= now THEN fail("ExpiredSignatureError")
  ELSE [err |-> None, sub |-> encoded_jwt.sub, typ |-> encoded_jwt.typ,
        exp |-> encoded_jwt.exp]

\* decode_jwt that accepts a token at the instant of its exp claim
decode_jwt_at_exp(encoded_jwt, public_key, audience, algorithms) ==
  LET fail(e) == [err |-> e, sub |-> None, typ |-> None, exp |-> 0] IN
  IF ~encoded_jwt.wf THEN fail("DecodeError")
  ELSE IF encoded_jwt.alg \notin algorithms THEN fail("InvalidAlgorithmError")
  ELSE IF ~SignatureVerifies(encoded_jwt, public_key, encoded_jwt.alg)
       THEN fail("InvalidSignatureError")
  ELSE IF encoded_jwt.exp < now THEN fail("ExpiredSignatureError")
  ELSE IF encoded_jwt.aud = None THEN fail("MissingRequiredClaimError")
  ELSE IF encoded_jwt.aud # audience THEN fail("InvalidAudienceError")
  ELSE [err |-> None, sub |-> encoded_jwt.sub, typ |-> encoded_jwt.typ,
        exp |-> encoded_jwt.exp]

\* decode_jwt: jwt.decode(jwt, key, algorithms, audience).
\* Returns [err |-> None, claims...] or [err |-> the PyJWTError raised].
decode_jwt(encoded_jwt, public_key, audience, algorithms) ==
  LET fail(e) == [err |-> e, sub |-> None, typ |-> None, exp |-> 0] IN
  IF ~encoded_jwt.wf THEN fail("DecodeError")
  ELSE IF encoded_jwt.alg \notin algorithms THEN fail("InvalidAlgorithmError")
  ELSE IF ~SignatureVerifies(encoded_jwt, public_key, encoded_jwt.alg)
       THEN fail("InvalidSignatureError")
  ELSE IF encoded_jwt.exp <= now THEN fail("ExpiredSignatureError")
  ELSE IF encoded_jwt.aud = None THEN fail("MissingRequiredClaimError")
  ELSE IF encoded_jwt.aud # audience THEN fail("InvalidAudienceError")
  ELSE [err |-> None, sub |-> encoded_jwt.sub, typ |-> encoded_jwt.typ,
        exp |-> encoded_jwt.exp]

----------------------------------------------------------------------------
(* UserManager (principal store contract) *)

ParsableIds == UserIds \cup {GhostId}

\* parse_id: the integer a subject string denotes; Nothing = raises InvalidID
parse_id(s) == {i \in ParsableIds : str(i) = s}

\* get: the row with that id; Nothing = raises UserNotExists
user_manager_get(id) == {u \in users : u.id = id}

----------------------------------------------------------------------------
(* RedisClient / RedisTokenBlacklistManager *)

_make_key(token) == <<key_prefix, token>>

\* EXISTS key
has_key(key) == \E e \in blacklist : e.key = key

\* is_blacklisted that looks the bare token up, without the key prefix
is_blacklisted_bare_key(token) == has_key(token)

is_blacklisted(token) == has_key(_make_key(token))

\* a lookup that consumes the key it finds (GETDEL in place of EXISTS)
has_key_getdel(store, key) ==
  {e \in store : e.key # key}

\* the keyspace RedisClient.has_key leaves: EXISTS changes no key
has_key_store(store, key) ==
  store

\* the store RedisTokenBlacklistManager.is_blacklisted leaves
is_blacklisted_store(store, token) ==
  has_key_store(store, _make_key(token))

\* SET key value EX ex NX : an entry under the key is left as it is
redis_set_nx(store, key, value, ex) ==
  IF \E e \in store : e.key = key
  THEN store
  ELSE store \cup {[key |-> key, value |-> value,
                    expire_at |-> {now + x : x \in ex}]}

\* SET key value EX ex : replaces any entry under the key; ex = None keeps
\* the key forever
redis_set(store, key, value, ex) ==
  {e \in store : e.key # key}
    \cup {[key |-> key, value |-> value,
           expire_at |-> {now + x : x \in ex}]}

\* RedisTokenBlacklistManager.set that keeps every entry for one clock unit
blacklist_set_short_lived(store, token, user_id, ex) ==
  redis_set(store, _make_key(token), user_id, {1})

blacklist_set(store, token, user_id, ex) ==
  redis_set(store, _make_key(token), user_id, ex)

\* keys Redis still holds at time t
Unexpired(store, t) == {e \in store : \A x \in e.expire_at : t < x}

----------------------------------------------------------------------------
(* JWTStrategy *)

NoneNone == [raised |-> None, user |-> Nothing, exp |-> Nothing]

\* read_token without the comparison of the token_type claim
read_token_any_kind(token, required_token_type) ==
  IF ~redis_up
  THEN [raised |-> "ConnectionError", user |-> Nothing, exp |-> Nothing]
  ELSE IF is_blacklisted(token) THEN NoneNone
  ELSE
    LET data == decode_jwt(token, PUBLIC_KEY, TOKEN_AUDIENCE, {ALGORITHM}) IN
    IF data.err # None THEN NoneNone
    ELSE IF data.sub = None \/ data.typ = None THEN NoneNone
    ELSE
      LET parsed_id == parse_id(data.sub) IN
      IF parsed_id = Nothing THEN NoneNone
      ELSE IF user_manager_get(The(parsed_id)) = Nothing THEN NoneNone
      ELSE [raised |-> None, user |-> user_manager_get(The(parsed_id)),
            exp |-> Some(data.exp)]

\* read_token that lets the InvalidID / UserNotExists of the lookup escape
read_token_lookup_raises(token, required_token_type) ==
  IF ~redis_up
  THEN [raised |-> "ConnectionError", user |-> Nothing, exp |-> Nothing]
  ELSE IF is_blacklisted(token) THEN NoneNone
  ELSE
    LET data == decode_jwt(token, PUBLIC_KEY, TOKEN_AUDIENCE, {ALGORITHM}) IN
    IF data.err # None THEN NoneNone
    ELSE IF data.sub = None \/ data.typ = None THEN NoneNone
    ELSE IF data.typ # required_token_type THEN NoneNone
    ELSE
      LET parsed_id == parse_id(data.sub) IN
      IF parsed_id = Nothing
      THEN [raised |-> "InvalidID", user |-> Nothing, exp |-> Nothing]
      ELSE IF user_manager_get(The(parsed_id)) = Nothing
      THEN [raised |-> "UserNotExists", user |-> Nothing, exp |-> Nothing]
      ELSE [raised |-> None, user |-> user_manager_get(The(parsed_id)),
            exp |-> Some(data.exp)]

\* read_token that takes an unreachable store for "not blacklisted"
read_token_fail_open(token, required_token_type) ==
  IF redis_up /\ is_blacklisted(token) THEN NoneNone
  ELSE
    LET data == decode_jwt(token, PUBLIC_KEY, TOKEN_AUDIENCE, {ALGORITHM}) IN
    IF data.err # None THEN NoneNone
    ELSE IF data.sub = None \/ data.typ = None THEN NoneNone
    ELSE IF data.typ # required_token_type THEN NoneNone
    ELSE
      LET parsed_id == parse_id(data.sub) IN
      IF parsed_id = Nothing THEN NoneNone
      ELSE IF user_manager_get(The(parsed_id)) = Nothing THEN NoneNone
      ELSE [raised |-> None, user |-> user_manager_get(The(parsed_id)),
            exp |-> Some(data.exp)]

read_token(token, required_token_type) ==
  IF ~redis_up
  THEN [raised |-> "ConnectionError", user |-> Nothing, exp |-> Nothing]
  ELSE IF is_blacklisted(token) THEN NoneNone
  ELSE
    LET data == decode_jwt(token, PUBLIC_KEY, TOKEN_AUDIENCE, {ALGORITHM}) IN
    IF data.err # None THEN NoneNone
    ELSE IF data.sub = None \/ data.typ = None THEN NoneNone
    ELSE IF data.typ # required_token_type THEN NoneNone
    ELSE
      LET parsed_id == parse_id(data.sub) IN
      IF parsed_id = Nothing THEN NoneNone
      ELSE IF user_manager_get(The(parsed_id)) = Nothing THEN NoneNone
      ELSE [raised |-> None, user |-> user_manager_get(The(parsed_id)),
            exp |-> Some(data.exp)]

\* read_token that verifies the token before it asks the blacklist
read_token_calls_decode_first(token, required_token_type) ==
  LET data == decode_jwt(token, PUBLIC_KEY, TOKEN_AUDIENCE, {ALGORITHM}) IN
  IF data.err # None \/ data.sub = None \/ data.typ = None
  THEN <<"decode_jwt">>
  ELSE IF ~redis_up \/ is_blacklisted(token)
  THEN <<"decode_jwt", "is_blacklisted">>
  ELSE IF data.typ # required_token_type
  THEN <<"decode_jwt", "is_blacklisted", "token_type">>
  ELSE IF parse_id(data.sub) = Nothing
  THEN <<"decode_jwt", "is_blacklisted", "token_type", "parse_id">>
  ELSE <<"decode_jwt", "is_blacklisted", "token_type", "parse_id", "get">>

\* the steps read_token runs, in the order it runs them, up to the one it
\* returns or raises from: the blacklist query, decode_jwt with the checks
\* that the sub and token_type claims are there, the comparison of
\* token_type, user_manager.parse_id, user_manager.get
read_token_calls(token, required_token_type) ==
  IF ~redis_up THEN <<"is_blacklisted">>
  ELSE IF is_blacklisted(token) THEN <<"is_blacklisted">>
  ELSE
    LET data == decode_jwt(token, PUBLIC_KEY, TOKEN_AUDIENCE, {ALGORITHM}) IN
    IF data.err # None THEN <<"is_blacklisted", "decode_jwt">>
    ELSE IF data.sub = None \/ data.typ = None
    THEN <<"is_blacklisted", "decode_jwt">>
    ELSE IF data.typ # required_token_type
    THEN <<"is_blacklisted", "decode_jwt", "token_type">>
    ELSE IF parse_id(data.sub) = Nothing
    THEN <<"is_blacklisted", "decode_jwt", "token_type", "parse_id">>
    ELSE <<"is_blacklisted", "decode_jwt", "token_type", "parse_id", "get">>

write_token(user, token_type) ==
  generate_jwt([sub |-> str(user.id), typ |-> token_type],
               PRIVATE_KEY, TOKEN_AUDIENCE, lifetime_seconds[token_type],
               ALGORITHM)

\* the store read_token leaves: its one command on the store is the
\* blacklist query, which fails before it reaches an unreachable Redis;
\* write_token sends the store no command
read_token_store(store, token) ==
  IF redis_up THEN is_blacklisted_store(store, token) ELSE store

----------------------------------------------------------------------------
(* Authenticator *)

BACKEND_NAME == "jwt_bearer"

\* name_to_variable_name: f"{prefix}_{name}" (the backend name has no
\* character the two patterns strip)
name_to_variable_name(name, prefix) == <<prefix, name>>

\* the keyword arguments FastAPI resolves for the dependency signature:
\* the bearer header and the refresh cookie, each None when absent
Kwargs(bearer, cookie) ==
  (name_to_variable_name(BACKEND_NAME, ACCESS_TOKEN) :> bearer)
    @@ (name_to_variable_name(BACKEND_NAME, REFRESH_TOKEN) :> cookie)

HTTP_200_OK == 200
HTTP_204_NO_CONTENT == 204
HTTP_400_BAD_REQUEST == 400
HTTP_401_UNAUTHORIZED == 401
HTTP_403_FORBIDDEN == 403

\* _authenticate whose status starts out as 403 when no principal was read
_authenticate_403_default(kwargs, token_type, optional, active, verified, superuser) ==
  LET token == kwargs[name_to_variable_name(BACKEND_NAME, token_type)]
      r == IF token # Nothing THEN read_token(The(token), token_type)
                              ELSE NoneNone
      denied_active == r.user # Nothing /\ active /\ ~The(r.user).is_active
      denied_403 ==
        /\ r.user # Nothing
        /\ ~denied_active
        /\ \/ verified /\ ~The(r.user).is_verified
           \/ superuser /\ ~The(r.user).is_superuser
      user == IF denied_active \/ denied_403 THEN Nothing ELSE r.user
      status_code == IF denied_403 \/ r.user = Nothing
                     THEN HTTP_403_FORBIDDEN
                     ELSE HTTP_401_UNAUTHORIZED
  IN
  IF r.raised # None
  THEN [raised |-> r.raised, status |-> 0, user |-> Nothing,
        token |-> token, exp |-> Nothing]
  ELSE IF user = Nothing /\ ~optional
  THEN [raised |-> "HTTPException", status |-> status_code, user |-> Nothing,
        token |-> token, exp |-> Nothing]
  ELSE [raised |-> None, status |-> 0, user |-> user,
        token |-> token, exp |-> r.exp]

\* _authenticate that checks the superuser flag but not the verified flag
_authenticate_superuser_only(kwargs, token_type, optional, active, verified, superuser) ==
  LET token == kwargs[name_to_variable_name(BACKEND_NAME, token_type)]
      r == IF token # Nothing THEN read_token(The(token), token_type)
                              ELSE NoneNone
      denied_active == r.user # Nothing /\ active /\ ~The(r.user).is_active
      denied_403 ==
        /\ r.user # Nothing
        /\ ~denied_active
        /\ superuser /\ ~The(r.user).is_superuser
      user == IF denied_active \/ denied_403 THEN Nothing ELSE r.user
      status_code == IF denied_403 THEN HTTP_403_FORBIDDEN
                                   ELSE HTTP_401_UNAUTHORIZED
  IN
  IF r.raised # None
  THEN [raised |-> r.raised, status |-> 0, user |-> Nothing,
        token |-> token, exp |-> Nothing]
  ELSE IF user = Nothing /\ ~optional
  THEN [raised |-> "HTTPException", status |-> status_code, user |-> Nothing,
        token |-> token, exp |-> Nothing]
  ELSE [raised |-> None, status |-> 0, user |-> user,
        token |-> token, exp |-> r.exp]

\* _authenticate that applies the verified / superuser checks to an
\* inactive principal as well
_authenticate_inactive_403(kwargs, token_type, optional, active, verified, superuser) ==
  LET token == kwargs[name_to_variable_name(BACKEND_NAME, token_type)]
      r == IF token # Nothing THEN read_token(The(token), token_type)
                              ELSE NoneNone
      denied_active == r.user # Nothing /\ active /\ ~The(r.user).is_active
      denied_403 ==
        /\ r.user # Nothing
        /\ \/ verified /\ ~The(r.user).is_verified
           \/ superuser /\ ~The(r.user).is_superuser
      user == IF denied_active \/ denied_403 THEN Nothing ELSE r.user
      status_code == IF denied_403 THEN HTTP_403_FORBIDDEN
                                   ELSE HTTP_401_UNAUTHORIZED
  IN
  IF r.raised # None
  THEN [raised |-> r.raised, status |-> 0, user |-> Nothing,
        token |-> token, exp |-> Nothing]
  ELSE IF user = Nothing /\ ~optional
  THEN [raised |-> "HTTPException", status |-> status_code, user |-> Nothing,
        token |-> token, exp |-> Nothing]
  ELSE [raised |-> None, status |-> 0, user |-> user,
        token |-> token, exp |-> r.exp]

\* _authenticate that applies the active, verified and superuser checks only
\* when optional is false
_authenticate_optional_unchecked(kwargs, token_type, optional, active, verified, superuser) ==
  LET token == kwargs[name_to_variable_name(BACKEND_NAME, token_type)]
      r == IF token # Nothing THEN read_token(The(token), token_type)
                              ELSE NoneNone
      denied_active == r.user # Nothing /\ active /\ ~The(r.user).is_active
      denied_403 ==
        /\ r.user # Nothing
        /\ ~denied_active
        /\ \/ verified /\ ~The(r.user).is_verified
           \/ superuser /\ ~The(r.user).is_superuser
      user == IF (denied_active \/ denied_403) /\ ~optional
              THEN Nothing ELSE r.user
      status_code == IF denied_403 THEN HTTP_403_FORBIDDEN
                                   ELSE HTTP_401_UNAUTHORIZED
  IN
  IF r.raised # None
  THEN [raised |-> r.raised, status |-> 0, user |-> Nothing,
        token |-> token, exp |-> Nothing]
  ELSE IF user = Nothing /\ ~optional
  THEN [raised |-> "HTTPException", status |-> status_code, user |-> Nothing,
        token |-> token, exp |-> Nothing]
  ELSE [raised |-> None, status |-> 0, user |-> user,
        token |-> token, exp |-> r.exp]

\* _authenticate that asks the strategy (and so the store) even when no
\* token of the required kind was presented
_authenticate_reads_always(kwargs, token_type, optional, active, verified, superuser) ==
  LET token == kwargs[name_to_variable_name(BACKEND_NAME, token_type)]
      r == IF token # Nothing THEN read_token(The(token), token_type)
           ELSE IF ~redis_up
           THEN [raised |-> "ConnectionError", user |-> Nothing,
                 exp |-> Nothing]
           ELSE NoneNone
      denied_active == r.user # Nothing /\ active /\ ~The(r.user).is_active
      denied_403 ==
        /\ r.user # Nothing
        /\ ~denied_active
        /\ \/ verified /\ ~The(r.user).is_verified
           \/ superuser /\ ~The(r.user).is_superuser
      user == IF denied_active \/ denied_403 THEN Nothing ELSE r.user
      status_code == IF denied_403 THEN HTTP_403_FORBIDDEN
                                   ELSE HTTP_401_UNAUTHORIZED
  IN
  IF r.raised # None
  THEN [raised |-> r.raised, status |-> 0, user |-> Nothing,
        token |-> token, exp |-> Nothing]
  ELSE IF user = Nothing /\ ~optional
  THEN [raised |-> "HTTPException", status |-> status_code, user |-> Nothing,
        token |-> token, exp |-> Nothing]
  ELSE [raised |-> None, status |-> 0, user |-> user,
        token |-> token, exp |-> r.exp]

\* Authenticator._authenticate.  raised is None when it returns
\* (user, (token, token_exp)), else the exception; status is the
\* HTTPException's status code (0 when none was raised).
_authenticate(kwargs, token_type, optional, active, verified, superuser) ==
  LET token == kwargs[name_to_variable_name(BACKEND_NAME, token_type)]
      r == IF token # Nothing THEN read_token(The(token), token_type)
                              ELSE NoneNone
      denied_active == r.user # Nothing /\ active /\ ~The(r.user).is_active
      denied_403 ==
        /\ r.user # Nothing
        /\ ~denied_active
        /\ \/ verified /\ ~The(r.user).is_verified
           \/ superuser /\ ~The(r.user).is_superuser
      user == IF denied_active \/ denied_403 THEN Nothing ELSE r.user
      status_code == IF denied_403 THEN HTTP_403_FORBIDDEN
                                   ELSE HTTP_401_UNAUTHORIZED
  IN
  IF r.raised # None
  THEN [raised |-> r.raised, status |-> 0, user |-> Nothing,
        token |-> token, exp |-> Nothing]
  ELSE IF user = Nothing /\ ~optional
  THEN [raised |-> "HTTPException", status |-> status_code, user |-> Nothing,
        token |-> token, exp |-> Nothing]
  ELSE [raised |-> None, status |-> 0, user |-> user,
        token |-> token, exp |-> r.exp]

\* the store _authenticate leaves: read_token runs when the token is given
_authenticate_store(store, kwargs, token_type) ==
  LET token == kwargs[name_to_variable_name(BACKEND_NAME, token_type)] IN
  IF token # Nothing THEN read_token_store(store, The(token)) ELSE store

\* the parameter named user_manager, written as name_to_variable_name
\* writes a name ("user" + "_" + "manager")
USER_MANAGER == <<"user", "manager">>

\* Authenticator._get_dependency_signature: the parameters of the dependency,
\* in the order they are declared.  The method takes no argument: the list
\* is the same for every dependency built.
_get_dependency_signature ==
  << USER_MANAGER,
     name_to_variable_name(BACKEND_NAME, ACCESS_TOKEN),
     name_to_variable_name(BACKEND_NAME, REFRESH_TOKEN) >>

\* Authenticator.get_current_user_token: the dependency it returns, as its
\* declared signature and the arguments it passes to _authenticate
get_current_user_token(required_token_type, optional, active, verified, superuser) ==
  [signature |-> _get_dependency_signature,
   token_type |-> required_token_type, optional |-> optional,
   active |-> active, verified |-> verified, superuser |-> superuser]

\* Authenticator.get_current_user: the same for the access token
get_current_user(optional, active, verified, superuser) ==
  get_current_user_token(ACCESS_TOKEN, optional, active, verified, superuser)

\* the keyword arguments FastAPI passes to a dependency: one for every
\* declared parameter but user_manager, the access token field resolved by
\* the bearer scheme and the refresh token field by get_cookie
Resolve(signature, bearer, cookie) ==
  [p \in {signature[i] : i \in DOMAIN signature} \ {USER_MANAGER} |->
     IF p = name_to_variable_name(BACKEND_NAME, ACCESS_TOKEN)
     THEN bearer ELSE cookie]

----------------------------------------------------------------------------
(* JWTStrategy.destroy_token, BearerTransport, AuthenticationBackend *)

\* destroy_token that blacklists the access token only
destroy_token_access_only(store, user_id, access_token_info, refresh_token_info) ==
  blacklist_set(store, The(access_token_info[1]), user_id,
                access_token_info[2])

\* destroy_token that also blacklists every refresh token issued to the user
destroy_token_family(store, user_id, access_token_info, refresh_token_info) ==
  LET s1 == blacklist_set(store, The(access_token_info[1]), user_id,
                          access_token_info[2])
      s2 == IF refresh_token_info[1] # Nothing
            THEN blacklist_set(s1, The(refresh_token_info[1]), user_id,
                               refresh_token_info[2])
            ELSE s1
      family == {t \in issued : t.typ = REFRESH_TOKEN /\ t.sub = str(user_id)}
  IN s2 \cup {[key |-> _make_key(t), value |-> user_id,
               expire_at |-> {now + t.exp}] : t \in family}

\* destroy_token: the store after the one or two SETs.  An info pair is
\* <<token or None, exp or None>> as _authenticate returned it.
destroy_token(store, user_id, access_token_info, refresh_token_info) ==
  LET s1 == blacklist_set(store, The(access_token_info[1]), user_id,
                          access_token_info[2])
  IN IF refresh_token_info[1] # Nothing
     THEN blacklist_set(s1, The(refresh_token_info[1]), user_id,
                        refresh_token_info[2])
     ELSE s1

\* get_login_response that never sets the refresh cookie
get_login_response_no_cookie(access_token, refresh_token) ==
  [status |-> HTTP_200_OK, body |-> Some(access_token),
   cookie |-> Nothing]

\* BearerTransport.get_login_response: the body carries the access token,
\* the refresh cookie is set when a refresh token is given
get_login_response(access_token, refresh_token) ==
  [status |-> HTTP_200_OK, body |-> Some(access_token),
   cookie |-> refresh_token]

\* login that writes and returns a refresh token on a refresh as well
backend_login_always_both(user, is_refresh) ==
  LET access_token == write_token(user, ACCESS_TOKEN)
      refresh_token == write_token(user, REFRESH_TOKEN)
  IN [response |-> get_login_response(access_token, Some(refresh_token)),
      written |-> {access_token, refresh_token}]

\* AuthenticationBackend.login: the response and the tokens written
backend_login(user, is_refresh) ==
  LET access_token == write_token(user, ACCESS_TOKEN) IN
  IF is_refresh
  THEN [response |-> get_login_response(access_token, Nothing),
        written |-> {access_token}]
  ELSE LET refresh_token == write_token(user, REFRESH_TOKEN) IN
       [response |-> get_login_response(access_token, Some(refresh_token)),
        written |-> {access_token, refresh_token}]

\* get_auth_router(requires_verification=True)
requires_verification == TRUE

----------------------------------------------------------------------------
(* core/db/redis/client.py and the manager's close: connection pools *)

\* settings.REDIS.TOKEN_BLACKLIST_DB: the db indices the client has servers for
TOKEN_BLACKLIST_DB == {0}

\* RedisClient(servers=..., max_connections=50, timeout=120): no pool yet.
\* _pools maps a db index to its pool, a pool being the number of its
\* connections that are connected to the server.
RedisClient == [_pools |-> <<>>]

\* the cached_property _cache: the client is created on first access
cached_property_cache(cache) ==
  IF cache = Nothing THEN RedisClient ELSE The(cache)

\* RedisClient._get_connection_pool: the pool is created on first use
_get_connection_pool(pools, db_idx) ==
  IF db_idx \in DOMAIN pools THEN pools ELSE (db_idx :> 0) @@ pools

\* the pools whose connections are all disconnected
Disconnected(client) ==
  [db \in DOMAIN client._pools |-> 0]

\* a close that fails on a pool it has closed before
redis_close_once(client, failing) ==
  [raised |-> IF failing # {} \/ \E db \in DOMAIN client._pools :
                                    client._pools[db] = 0
              THEN "Exception" ELSE None,
   client |-> [_pools |-> Disconnected(client)]]

\* RedisClient.close: gather(pool.aclose() for every pool); aclose
\* disconnects every connection of the pool and leaves the pool in _pools.
\* failing: the pools whose aclose raises while disconnecting.
redis_close(client, failing) ==
  [raised |-> IF failing # {} THEN "Exception" ELSE None,
   client |-> [_pools |-> Disconnected(client)]]

\* the pools whose aclose has a connection to disconnect, and so can fail
CanFail(cache) ==
  {db \in DOMAIN cached_property_cache(cache)._pools :
     cached_property_cache(cache)._pools[db] > 0}

\* a client that exists with every pool disconnected: the state close leaves
IsClosed(cache) ==
  /\ cache # Nothing
  /\ \A db \in DOMAIN The(cache)._pools : The(cache)._pools[db] = 0

\* RedisTokenBlacklistManager.close(**kwargs)
blacklist_close(cache, failing) ==
  redis_close(cached_property_cache(cache), failing)

----------------------------------------------------------------------------
(* core/dispatch/dispatcher.py: objects, identities, receiver handles *)

\* Receivers are coroutine functions taking **kwargs, or bound coroutine
\* methods: [self |-> owning object or None, func |-> function object].
Function(f) == [self |-> None, func |-> f]
Method(o, f) == [self |-> o, func |-> f]

Callables ==
  {Function("f1"), Function("f2"), Method("o1", "m1"),
   Method("manager", "close")}

\* s3 is a sender object created after s1 was collected
SenderObjects == {"s1", "s2", "s3"}

\* the objects that can become garbage; the others live as long as the
\* process (module-level objects)
Collectable == {"f1", "f2", "s1"}

\* o1 is an object with a coroutine method m1; manager is
\* token_blacklist_manager, close the function of its class
\* RedisTokenBlacklistManager that manager.close is bound to
Objects ==
  {"f1", "f2", "o1", "m1", "manager", "close", "RedisTokenBlacklistManager"}
    \cup SenderObjects

\* id(): the address of an object (None included); unique among the
\* objects alive together.  s3 is allocated where s1 was; s2 stands for a
\* sender whose address no other object has had.
Address ==
  [o \in Objects \cup {None} |->
     CASE o = None -> 1
       [] o = "f1" -> 11 [] o = "f2" -> 12 [] o = "o1" -> 15
       [] o = "m1" -> 16 [] o = "manager" -> 13
       [] o = "close" -> 14 [] o = "s1" -> 21 [] o = "s2" -> 22
       [] o = "s3" -> 21 [] o = "RedisTokenBlacklistManager" -> 23]

inspect_ismethod(target) == target.self # None

\* A str, an int and a tuple of ints never compare equal in Python: the
\* first component of a lookup key is [uid |-> the string or "", ids |-> the
\* int or ints of _make_id or <<>>]
IdKey(ids) == [uid |-> "", ids |-> ids]
UidKey(dispatch_uid) == [uid |-> dispatch_uid, ids |-> <<>>]

\* _make_id of a receiver
_make_id(target) ==
  IF inspect_ismethod(target)
  THEN IdKey(<<Address[target.self], Address[target.func]>>)
  ELSE IdKey(<<Address[target.func]>>)

\* _make_id of a sender: an object that is no method, or None
_make_id_sender(sender) == Address[sender]

NONE_ID == _make_id_sender(None)

\* the lookup_key connect and disconnect compute; dispatch_uid None is falsy
lookup_key_of(receiver, sender, dispatch_uid) ==
  IF dispatch_uid # None
  THEN <<UidKey(dispatch_uid), _make_id_sender(sender)>>
  ELSE <<_make_id(receiver), _make_id_sender(sender)>>

\* the object whose collection kills a weak reference to the receiver
\* (receiver.__self__ for a bound method)
receiver_object(receiver) ==
  IF inspect_ismethod(receiver) THEN receiver.self ELSE receiver.func

\* a receiver as stored: weakref.ref / WeakMethod (weak) or the callable
Handle(receiver, weak) == [weak |-> weak, target |-> receiver]

\* a weak reference that never reports its referent collected
IsDead_never(handle, live) ==
  FALSE

\* weakref.ref in place of weakref.WeakMethod: the reference to a bound
\* method is dead as soon as it is made
IsDead_bound_method(handle, live) ==
  handle.weak /\ (inspect_ismethod(handle.target)
                    \/ receiver_object(handle.target) \notin live)

\* a weak reference whose referent was collected: receiver() is None
IsDead(handle, live) ==
  handle.weak /\ receiver_object(handle.target) \notin live

NO_RECEIVERS == [symbol |-> "NO_RECEIVERS"]

\* an entry of Signal.receivers
Entry(lookup_key, handle) == [lookup_key |-> lookup_key, receiver |-> handle]

\* a prune that resets the flag after removing only the first dead entry
_clear_dead_receivers_first(list, flag, live) ==
  IF flag /\ \E i \in DOMAIN list : IsDead(list[i].receiver, live)
  THEN LET idx == CHOOSE i \in DOMAIN list :
                    /\ IsDead(list[i].receiver, live)
                    /\ \A j \in 1..(i - 1) : ~IsDead(list[j].receiver, live)
       IN SubSeq(list, 1, idx - 1) \o SubSeq(list, idx + 1, Len(list))
  ELSE list

\* _clear_dead_receivers that removes nothing
_clear_dead_receivers_keeps_all(list, flag, live) ==
  list

\* _clear_dead_receivers: the list it leaves (the flag is reset by it)
_clear_dead_receivers(list, flag, live) ==
  IF flag
  THEN SelectSeq(list, LAMBDA e : ~IsDead(e.receiver, live))
  ELSE list

\* the locked part of connect that appends regardless of the keys present
connect_append_always(list, lookup_key, handle) ==
  Append(list, Entry(lookup_key, handle))

\* the locked part of connect: append unless the key is registered
connect_append(list, lookup_key, handle) ==
  IF ~ \E i \in DOMAIN list : list[i].lookup_key = lookup_key
  THEN Append(list, Entry(lookup_key, handle))
  ELSE list

\* a disconnect that drops the head of the list when the key is registered
disconnect_remove_head(list, lookup_key) ==
  IF \E i \in DOMAIN list : list[i].lookup_key = lookup_key
  THEN Tail(list)
  ELSE list

\* a disconnect that drops the entry with the key and every later entry
disconnect_remove_tail(list, lookup_key) ==
  IF \E i \in DOMAIN list : list[i].lookup_key = lookup_key
  THEN LET idx == CHOOSE i \in DOMAIN list :
                    /\ list[i].lookup_key = lookup_key
                    /\ \A j \in 1..(i - 1) : list[j].lookup_key # lookup_key
       IN SubSeq(list, 1, idx - 1)
  ELSE list

\* the locked part of disconnect: delete the first entry with the key
disconnect_remove(list, lookup_key) ==
  IF \E i \in DOMAIN list : list[i].lookup_key = lookup_key
  THEN LET idx == CHOOSE i \in DOMAIN list :
                    /\ list[i].lookup_key = lookup_key
                    /\ \A j \in 1..(i - 1) : list[j].lookup_key # lookup_key
       IN SubSeq(list, 1, idx - 1) \o SubSeq(list, idx + 1, Len(list))
  ELSE list

\* a connect or disconnect that drops only the NO_RECEIVERS markers
cache_clear_markers(cache) ==
  [k \in {s \in DOMAIN cache : cache[s] # NO_RECEIVERS} |-> cache[k]]

\* a connect or disconnect that leaves the cache as it is
cache_clear_keeps(cache) ==
  cache

\* sender_receivers_cache.clear()
cache_clear(cache) ==
  <<>>

\* sender_receivers_cache.get(sender): None (Nothing) on a miss
cache_get(cache, sender) ==
  IF sender \in DOMAIN cache THEN Some(cache[sender]) ELSE Nothing

cache_without(cache, key) ==
  [k \in DOMAIN cache \ {key} |-> cache[k]]

Cached(handles) == [handles |-> handles]

\* the receiver argument of a disconnect that names only a dispatch_uid
NoReceiver == Function(None)

\* the (receiver, sender, dispatch_uid) of a connect
Triple(receiver, sender, dispatch_uid) ==
  [receiver |-> receiver, sender |-> sender, dispatch_uid |-> dispatch_uid]

KeysOf(list) == {list[i].lookup_key : i \in DOMAIN list}

\* the history restricted to the keys still in the list
Registered(history, list) ==
  [k \in DOMAIN history \cap KeysOf(list) |-> history[k]]

\* the history after a connect of triple t with key k left the list as list
Connected(history, list, k, t) ==
  LET kept == Registered(history, list) IN
  IF k \notin DOMAIN kept THEN (k :> [triple |-> t, n |-> 1]) @@ kept
  ELSE IF kept[k].triple = t THEN [kept EXCEPT ![k].n = 2]
  ELSE kept

\* _live_receivers(sender): the callables it returns and the state it
\* leaves.  With caching the cache is a WeakKeyDictionary, which raises
\* TypeError when it is read or written under the key None.
_live_receivers(sender) ==
  LET hit == IF use_caching /\ ~_dead_receivers
             THEN cache_get(sender_receivers_cache, sender)
             ELSE Nothing
      pruned == _clear_dead_receivers(receivers, _dead_receivers, alive)
      sender_key == _make_id_sender(sender)
      matching == SelectSeq(pruned,
                            LAMBDA e : \/ e.lookup_key[2] = NONE_ID
                                       \/ e.lookup_key[2] = sender_key)
      computed == [i \in DOMAIN matching |-> matching[i].receiver]
      deref(handles) ==
        LET live == SelectSeq(handles, LAMBDA h : ~IsDead(h, alive))
        IN [i \in DOMAIN live |-> live[i].target]
  IN
  IF use_caching /\ sender = None
  THEN [raised |-> "TypeError", receivers |-> <<>>,
        list |-> IF _dead_receivers THEN pruned ELSE receivers,
        dead |-> FALSE, cache |-> sender_receivers_cache]
  ELSE IF hit = Some(NO_RECEIVERS)
  THEN [raised |-> None, receivers |-> <<>>, list |-> receivers,
        dead |-> _dead_receivers, cache |-> sender_receivers_cache]
  ELSE IF hit # Nothing
  THEN [raised |-> None, receivers |-> deref(The(hit).handles),
        list |-> receivers, dead |-> _dead_receivers,
        cache |-> sender_receivers_cache]
  ELSE [raised |-> None, receivers |-> deref(computed), list |-> pruned,
        dead |-> FALSE,
        cache |-> IF use_caching
                  THEN (sender :> (IF computed = <<>> THEN NO_RECEIVERS
                                                      ELSE Cached(computed)))
                         @@ sender_receivers_cache
                  ELSE sender_receivers_cache]

\* the selection of _live_receivers that leaves the wildcard entries out
matching_receivers_no_wildcard(list, sender) ==
  LET matching == SelectSeq(list,
                            LAMBDA e : e.lookup_key[2]
                                         = _make_id_sender(sender))
  IN [i \in DOMAIN matching |-> matching[i].receiver]

\* the loop of _live_receivers over the receiver list: the handles of the
\* entries registered for the wildcard or for the sender, in list order
matching_receivers(list, sender) ==
  LET matching == SelectSeq(list,
                            LAMBDA e : \/ e.lookup_key[2] = NONE_ID
                                       \/ e.lookup_key[2]
                                            = _make_id_sender(sender))
  IN [i \in DOMAIN matching |-> matching[i].receiver]

\* the last loop of _live_receivers: weak references are dereferenced and
\* the dead ones dropped
non_weak_receivers(handles, live) ==
  LET kept == SelectSeq(handles, LAMBDA h : ~IsDead(h, live))
  IN [i \in DOMAIN kept |-> kept[i].target]

\* sender_receivers_cache[sender] = NO_RECEIVERS or the receivers found
cache_set(cache, sender, handles) ==
  (sender :> (IF handles = <<>> THEN NO_RECEIVERS ELSE Cached(handles)))
    @@ cache

\* entering `async with self.lock` without taking the lock
acquire_lock_not_taken(held, task) ==
  held

\* `async with self.lock`, entered when the lock is free: the task holds it
acquire_lock(held, task) ==
  Some(task)

\* leaving `async with self.lock`
release_lock(held, task) ==
  IF held = Some(task) THEN Nothing ELSE held

\* the coroutines of the Signal that run together
Tasks == {"t1", "t2"}

\* A task's call.  pc is the point the call is at: "lookup" before the cache
\* read of _live_receivers, "lock" before `async with self.lock`, "locked"
\* inside it, "deref" after it, "gather" at asyncio.gather, "done" when it
\* has returned (or none was made).  receivers is the local variable of
\* _live_receivers (None: Nothing), called the callables it returned.
\* accesses: the reads and writes of Signal.receivers and of the cache that
\* the task's latest step made, each with whether the task held the lock.
\* missed: the task found no entry for its sender in the cache.
\* removed (disconnect): the receiver of the registration a disconnect that
\* returned True removed, until the key is connected again.
\* barred (send, has_listeners): the registrations that a disconnect had
\* returned True for when the call started, until they are connected again.
IdleTask ==
  [op |-> "idle", pc |-> "done",
   call |-> [receiver |-> Function(None), sender |-> None, weak |-> FALSE,
             dispatch_uid |-> None],
   receivers |-> Nothing, called |-> <<>>, returned |-> FALSE,
   result |-> <<>>, accesses |-> {}, missed |-> FALSE, removed |-> Nothing,
   barred |-> {}]

Access(object, kind, locked) ==
  [object |-> object, kind |-> kind, locked |-> locked]

\* the objects a call in flight refers to strongly: its arguments, and the
\* receivers _live_receivers has returned to a send
Held(task) ==
  IF task.pc = "done" THEN {}
  ELSE ({receiver_object(task.call.receiver), task.call.sender}
          \cup {receiver_object(task.called[i]) : i \in DOMAIN task.called})
         \ {None}

\* asyncio.gather without return_exceptions: the first exception raised by
\* a receiver is raised to the caller
gather_first_exception(called, raising) ==
  IF \E i \in DOMAIN called : i \in raising
  THEN [raised |-> "Exception", responses |-> <<>>]
  ELSE [raised |-> None, responses |-> [i \in DOMAIN called |-> "returned"]]

\* a join that returns as soon as the first receiver call has completed
\* (asyncio.wait with FIRST_COMPLETED): the other calls are still pending
gather_first_completed(called, raising) ==
  [raised |-> None,
   responses |-> [i \in DOMAIN called |->
                    IF i > 1 THEN "pending"
                    ELSE IF i \in raising THEN "Exception" ELSE "returned"]]

\* asyncio.gather(*[receiver(...)], return_exceptions=True): every receiver
\* call runs to completion; the response of the i-th call is what it
\* returned, or the exception it raised (raising: the calls that raise)
gather(called, raising) ==
  [raised |-> None,
   responses |-> [i \in DOMAIN called |->
                    IF i \in raising THEN "Exception" ELSE "returned"]]

\* list(zip(receivers, responses))
zip(called, responses) ==
  [i \in DOMAIN called |-> <<called[i], responses[i]>>]

\* Outcome record of the most recent Signal or connection operation; pruned
\* is the number of dead entries the operation removed from the receiver
\* list, reclosed whether it ran close on a client that the last operation
\* on it had closed, cleared whether the cache held entries when the
\* operation cleared it
IdleSignal ==
  [op |-> "idle", receiver |-> Nothing, sender |-> None,
   dispatch_uid |-> None, returned |-> FALSE, raised |-> None,
   raising |-> {}, result |-> <<>>, pruned |-> 0, reclosed |-> FALSE,
   cleared |-> FALSE]

InitSignal ==
  /\ receivers = <<>>
  /\ _dead_receivers = FALSE
  /\ sender_receivers_cache = <<>>
  /\ alive = Objects \ {"s3"}
  /\ finalizers = {}
  /\ sent = IdleSignal
  /\ connects = <<>>
  /\ lock = Nothing
  /\ tasks = [t \in Tasks |-> IdleTask]

----------------------------------------------------------------------------
(* Outcome record of the most recent operation *)

Idle ==
  [op |-> "idle", token |-> Nothing, kind |-> None, raised |-> None,
   status |-> 0, user |-> Nothing, exp |-> Nothing,
   flags |-> <<FALSE, FALSE, FALSE, FALSE>>,
   body |-> Nothing, cookie |-> Nothing, calls |-> <<>>]

OptTokens(S) == {Nothing} \cup {Some(t) : t \in S}

TypeOK ==
  /\ now \in 1..MaxClock
  /\ redis_up \in BOOLEAN
  /\ Cardinality(issued) <= MaxIssued
  /\ \A u1 \in users, u2 \in users : u1.id = u2.id => u1 = u2
  /\ \A e1 \in blacklist, e2 \in blacklist : e1.key = e2.key => e1 = e2

InitAuth ==
  /\ now = 1
  /\ users = {[id |-> id, is_active |-> TRUE, is_verified |-> TRUE,
                is_superuser |-> FALSE] : id \in UserIds}
  /\ issued = {}
  /\ blacklist = {}
  /\ redis_up = TRUE
  /\ last = Idle
  /\ revoked = {}
  /\ _cache = Nothing
  /\ minted = {}

\* the application's Signal is constructed without caching
Init ==
  /\ InitAuth
  /\ InitSignal
  /\ use_caching = FALSE

\* time passes; Redis drops the keys whose ttl ran out
Tick ==
  /\ now < MaxClock
  /\ now' = now + 1
  /\ blacklist' = Unexpired(blacklist, now + 1)
  /\ last' = Idle
  /\ UNCHANGED <<users, issued, redis_up, revoked>>
  /\ UNCHANGED <<signal_vars, _cache, minted, lock, tasks>>

\* the response of the finished request is handed to the client
Respond ==
  /\ last # Idle
  /\ last' = Idle
  /\ UNCHANGED <<now, users, issued, blacklist, redis_up, revoked>>
  /\ UNCHANGED <<signal_vars, _cache, minted, lock, tasks>>

\* the Redis server becomes unreachable / reachable again
RedisDown ==
  /\ redis_up
  /\ redis_up' = FALSE
  /\ last' = Idle
  /\ UNCHANGED <<now, users, issued, blacklist, revoked>>
  /\ UNCHANGED <<signal_vars, _cache, minted, lock, tasks>>

RedisUp ==
  /\ ~redis_up
  /\ redis_up' = TRUE
  /\ last' = Idle
  /\ UNCHANGED <<now, users, issued, blacklist, revoked>>
  /\ UNCHANGED <<signal_vars, _cache, minted, lock, tasks>>

\* RedisTokenBlacklistManager.clear: FLUSHDB
Clear ==
  /\ last = Idle
  /\ redis_up
  /\ blacklist # {}
  /\ blacklist' = {}
  /\ revoked' = {}
  /\ last' = [Idle EXCEPT !.op = "clear"]
  /\ UNCHANGED <<now, users, issued, redis_up>>
  /\ UNCHANGED <<signal_vars, _cache, minted, lock, tasks>>

\* UserDatabaseManager.delete
delete_user ==
  \E u \in users :
    /\ users' = users \ {u}
    /\ last' = Idle
    /\ UNCHANGED <<now, issued, blacklist, redis_up, revoked>>
    /\ UNCHANGED <<signal_vars, _cache, minted, lock, tasks>>

\* UserDatabaseManager.update with the three flags of UserUpdateSchema
update_user ==
  \E u \in users, a \in BOOLEAN, v \in BOOLEAN, su \in BOOLEAN :
    /\ users' = (users \ {u})
                   \cup {[u EXCEPT !.is_active = a, !.is_verified = v,
                                    !.is_superuser = su]}
    /\ users' # users
    /\ last' = Idle
    /\ UNCHANGED <<now, issued, blacklist, redis_up, revoked>>
    /\ UNCHANGED <<signal_vars, _cache, minted, lock, tasks>>

\* a caller invokes strategy.read_token on a presented token string
ReadTokenCall ==
  /\ last = Idle
  /\ \E token \in Presentable, k \in TokenTypes :
       LET r == read_token(token, k) IN
       /\ last' = [Idle EXCEPT !.op = "read_token", !.token = Some(token),
                               !.kind = k, !.raised = r.raised,
                               !.user = r.user, !.exp = r.exp,
                               !.calls = read_token_calls(token, k)]
       /\ blacklist' = read_token_store(blacklist, token)
       /\ UNCHANGED <<now, users, issued, redis_up, revoked>>
       /\ UNCHANGED <<signal_vars, _cache, minted, lock, tasks>>

\* POST /login; user_manager.authenticate(credentials) yields a row or None
LoginRoute ==
  /\ last = Idle
  /\ \E user \in {Nothing} \cup {Some(u) : u \in users} :
       IF user = Nothing \/ ~The(user).is_active
          \/ (requires_verification /\ ~The(user).is_verified)
       THEN /\ last' = [Idle EXCEPT !.op = "login",
                                    !.raised = "HTTPException",
                                    !.status = HTTP_400_BAD_REQUEST]
            /\ UNCHANGED <<now, users, issued, blacklist, redis_up, revoked>>
            /\ UNCHANGED <<signal_vars, _cache, minted, lock, tasks>>
       ELSE LET l == backend_login(The(user), FALSE) IN
            /\ Cardinality(issued \cup l.written) <= MaxIssued
            /\ issued' = issued \cup l.written
            /\ last' = [Idle EXCEPT !.op = "login", !.user = user,
                                    !.status = l.response.status,
                                    !.body = l.response.body,
                                    !.cookie = l.response.cookie]
            /\ UNCHANGED <<now, users, blacklist, redis_up, revoked>>
            /\ UNCHANGED <<signal_vars, _cache, minted, lock, tasks>>

\* token strings requests to the routes carry: the issued ones and one
\* string signed by a foreign key
RouteTokens == issued \cup {[Token(str(1), ACCESS_TOKEN, FarExp)
                               EXCEPT !.key = OTHER_KEY]}

\* POST /refresh
RefreshRoute ==
  /\ last = Idle
  /\ \E cookie \in OptTokens(RouteTokens) :
       LET a == _authenticate(Kwargs(Nothing, cookie), REFRESH_TOKEN,
                              FALSE, TRUE, requires_verification, FALSE)
       IN
       IF a.raised # None
       THEN /\ last' = [Idle EXCEPT !.op = "refresh", !.token = cookie,
                                    !.kind = REFRESH_TOKEN,
                                    !.raised = a.raised, !.status = a.status]
            /\ blacklist' = _authenticate_store(blacklist, Kwargs(Nothing, cookie),
                                               REFRESH_TOKEN)
            /\ UNCHANGED <<now, users, issued, redis_up, revoked>>
            /\ UNCHANGED <<signal_vars, _cache, minted, lock, tasks>>
       ELSE LET l == backend_login(The(a.user), TRUE) IN
            /\ Cardinality(issued \cup l.written) <= MaxIssued
            /\ issued' = issued \cup l.written
            /\ last' = [Idle EXCEPT !.op = "refresh", !.token = cookie,
                                    !.kind = REFRESH_TOKEN, !.user = a.user,
                                    !.status = l.response.status,
                                    !.body = l.response.body,
                                    !.cookie = l.response.cookie]
            /\ blacklist' = _authenticate_store(blacklist, Kwargs(Nothing, cookie),
                                               REFRESH_TOKEN)
            /\ UNCHANGED <<now, users, redis_up, revoked>>
            /\ UNCHANGED <<signal_vars, _cache, minted, lock, tasks>>

\* POST /logout
LogoutRoute ==
  /\ last = Idle
  /\ \E bearer \in OptTokens(RouteTokens), cookie \in OptTokens(RouteTokens) :
       LET a == _authenticate(Kwargs(bearer, cookie), ACCESS_TOKEN,
                              FALSE, TRUE, requires_verification, FALSE)
           r == _authenticate(Kwargs(bearer, cookie), REFRESH_TOKEN,
                              TRUE, TRUE, requires_verification, FALSE)
           failed == IF a.raised # None THEN a ELSE r
           after_access == _authenticate_store(blacklist,
                                               Kwargs(bearer, cookie),
                                               ACCESS_TOKEN)
           after == IF a.raised # None THEN after_access
                    ELSE _authenticate_store(after_access,
                                             Kwargs(bearer, cookie),
                                             REFRESH_TOKEN)
       IN
       IF failed.raised # None
       THEN /\ last' = [Idle EXCEPT !.op = "logout", !.token = bearer,
                                    !.raised = failed.raised,
                                    !.status = failed.status]
            /\ blacklist' = after
            /\ UNCHANGED <<now, users, issued, redis_up, revoked>>
            /\ UNCHANGED <<signal_vars, _cache, minted, lock, tasks>>
       ELSE /\ blacklist' = destroy_token(after, The(a.user).id,
                                          <<a.token, a.exp>>,
                                          <<r.token, r.exp>>)
            /\ last' = [Idle EXCEPT !.op = "logout", !.token = bearer,
                                    !.cookie = cookie, !.user = a.user,
                                    !.status = HTTP_204_NO_CONTENT]
            /\ revoked' = revoked \cup (IF r.user # Nothing
                                          THEN a.token \cup r.token ELSE {})
            /\ UNCHANGED <<now, users, issued, redis_up>>
            /\ UNCHANGED <<signal_vars, _cache, minted, lock, tasks>>

\* a request reaches a dependency built by get_current_user_token /
\* get_current_user with some combination of the policy flags
Authenticate ==
  /\ last = Idle
  /\ \E bearer \in OptTokens(RouteTokens), cookie \in OptTokens(RouteTokens),
        k \in TokenTypes,
        optional \in BOOLEAN, active \in BOOLEAN,
        verified \in BOOLEAN, superuser \in BOOLEAN :
       LET dependency == get_current_user_token(k, optional, active,
                                                verified, superuser)
           r == _authenticate(Resolve(dependency.signature, bearer, cookie),
                              dependency.token_type, dependency.optional,
                              dependency.active, dependency.verified,
                              dependency.superuser)
       IN
       /\ last' = [Idle EXCEPT !.op = "authenticate", !.token = r.token,
                               !.kind = k, !.raised = r.raised,
                               !.status = r.status,
                               !.user = r.user, !.exp = r.exp,
                               !.flags = <<optional, active, verified, superuser>>]
       /\ blacklist' = _authenticate_store(blacklist, Kwargs(bearer, cookie), k)
       /\ UNCHANGED <<now, users, issued, redis_up, revoked>>
       /\ UNCHANGED <<signal_vars, _cache, minted, lock, tasks>>

Next ==
  \/ Tick
  \/ Respond
  \/ RedisDown
  \/ RedisUp
  \/ Clear
  \/ delete_user
  \/ ReadTokenCall
  \/ LoginRoute
  \/ RefreshRoute
  \/ LogoutRoute

\* generate_jwt called as write_token calls it, for an existing principal,
\* with a lifetime of zero or more seconds
GenerateJwt ==
  /\ last = Idle
  /\ Cardinality(minted) < MaxIssued
  /\ \E token_type \in TokenTypes, lifetime \in 0..MaxLifetime :
       LET token == generate_jwt([sub |-> str(1), typ |-> token_type],
                                 PRIVATE_KEY, TOKEN_AUDIENCE, lifetime,
                                 ALGORITHM)
       IN
       /\ issued' = issued \cup {token}
       /\ minted' = minted \cup {[token |-> token, at |-> now,
                                  lifetime |-> lifetime]}
       /\ last' = [Idle EXCEPT !.op = "generate_jwt", !.token = Some(token),
                               !.kind = token_type]
  /\ UNCHANGED <<now, users, blacklist, redis_up, revoked>>
  /\ UNCHANGED <<signal_vars, _cache, lock, tasks>>

NextExpiry ==
  \/ Tick
  \/ Respond
  \/ GenerateJwt
  \/ ReadTokenCall

\* Tokens generated with any lifetime, zero included, and verified at the
\* instant of issue or later.
SpecExpiry == Init /\ [][NextExpiry]_vars

\* The token life cycle: issue, present, revoke, expire, with the rows of
\* the user table as registered (active, verified) or deleted.
Spec == Init /\ [][Next]_vars

NextPolicy ==
  \/ Respond
  \/ RedisDown
  \/ RedisUp
  \/ delete_user
  \/ update_user
  \/ LoginRoute
  \/ Authenticate

\* The resolver's policy: every combination of the policy flags against
\* every combination of the principal's flags.
SpecPolicy == Init /\ [][NextPolicy]_vars

----------------------------------------------------------------------------
(* Signal: operations *)

\* the senders a caller can name: None or a live sender object
Senders == {None} \cup (SenderObjects \cap alive)

Call(receiver, sender, weak, dispatch_uid) ==
  [receiver |-> receiver, sender |-> sender, weak |-> weak,
   dispatch_uid |-> dispatch_uid]

\* The connect calls explored: weak and strong references, a wildcard and
\* two specific senders, with and without dispatch_uid, one receiver under
\* two keys that match the same sender, two receivers under one dispatch_uid.
ConnectCalls ==
  { Call(Function("f1"), "s1", TRUE, None),
    Call(Function("f1"), None, FALSE, None),
    Call(Function("f2"), "s1", TRUE, "uid"),
    Call(Function("f1"), "s1", FALSE, "uid"),
    Call(Function("f2"), "s2", TRUE, None),
    Call(Method("o1", "m1"), "s2", TRUE, "uid") }

\* The disconnect calls explored: those of the connect calls, one by
\* dispatch_uid alone, and one for a receiver that is never connected
\* under that key.
DisconnectCalls ==
  {Call(c.receiver, c.sender, FALSE, c.dispatch_uid) : c \in ConnectCalls}
    \cup { Call(NoReceiver, "s1", FALSE, "uid"),
           Call(Function("f2"), None, FALSE, None) }

Range(seq) == {seq[i] : i \in DOMAIN seq}

\* the result of the finished Signal operation is handed to the caller
SignalReturn ==
  /\ sent # IdleSignal
  /\ sent' = IdleSignal
  /\ UNCHANGED <<receivers, _dead_receivers, sender_receivers_cache,
                 use_caching, alive, finalizers, connects, _cache, minted, lock, tasks>>
  /\ UNCHANGED auth_vars

\* the interpreter collects an object nothing refers to strongly; a
\* weakref.finalize installed on it runs _remove_receiver, and a
\* WeakKeyDictionary drops the entry keyed by it
Collect ==
  \E o \in alive \cap Collectable :
    /\ \A i \in DOMAIN receivers :
         receivers[i].receiver.weak
           \/ receiver_object(receivers[i].receiver.target) # o
    /\ \A k \in DOMAIN sender_receivers_cache :
         sender_receivers_cache[k] # NO_RECEIVERS =>
           \A h \in Range(sender_receivers_cache[k].handles) :
             h.weak \/ receiver_object(h.target) # o
    /\ \A t \in Tasks : o \notin Held(tasks[t])
    /\ alive' = alive \ {o}
    /\ finalizers' = finalizers \ {o}
    /\ _dead_receivers' = (_dead_receivers \/ o \in finalizers)
    /\ sender_receivers_cache' = cache_without(sender_receivers_cache, o)
    /\ sent' = IdleSignal
    /\ UNCHANGED <<receivers, use_caching, connects, _cache, minted, lock, tasks>>
    /\ UNCHANGED auth_vars

\* the interpreter creates a sender object in the memory a collected sender
\* has freed: id() of the new object is id() of the old one
Allocate ==
  /\ "s1" \notin alive
  /\ "s3" \notin alive
  /\ alive' = alive \cup {"s3"}
  /\ sent' = IdleSignal
  /\ UNCHANGED <<receivers, _dead_receivers, sender_receivers_cache,
                 use_caching, finalizers, connects, _cache, minted, lock, tasks>>
  /\ UNCHANGED auth_vars

\* Signal.connect(receiver, sender, weak, dispatch_uid), called with a
\* callable that accepts **kwargs
connect_call(call) ==
  LET receiver == call.receiver
      sender == call.sender
      weak == call.weak
      dispatch_uid == call.dispatch_uid
      lookup_key == lookup_key_of(receiver, sender, dispatch_uid)
      pruned == _clear_dead_receivers(receivers, _dead_receivers, alive)
      list == connect_append(pruned, lookup_key, Handle(receiver, weak))
  IN
  /\ receiver_object(receiver) \in alive
  /\ Len(list) <= MaxReceivers
  /\ receivers' = list
  /\ finalizers' = IF weak /\ receiver_object(receiver) \in Collectable
                   THEN finalizers \cup {receiver_object(receiver)}
                   ELSE finalizers
  /\ _dead_receivers' = FALSE
  /\ sender_receivers_cache' = cache_clear(sender_receivers_cache)
  /\ connects' = Connected(connects, pruned, lookup_key,
                            Triple(receiver, sender, dispatch_uid))
  /\ sent' = [IdleSignal EXCEPT !.op = "connect",
                                !.receiver = Some(receiver),
                                !.sender = sender,
                                !.dispatch_uid = dispatch_uid,
                                !.pruned = Len(receivers) - Len(pruned),
                                !.cleared = (sender_receivers_cache # <<>>)]
  /\ UNCHANGED <<use_caching, alive, _cache, minted, lock, tasks>>
  /\ UNCHANGED auth_vars

connect ==
  /\ sent = IdleSignal
  /\ \E call \in ConnectCalls :
       /\ call.sender \in Senders
       /\ connect_call(call)

\* Signal.disconnect; receiver may be None when dispatch_uid is given
disconnect ==
  /\ sent = IdleSignal
  /\ \E call \in DisconnectCalls :
       LET receiver == call.receiver
           sender == call.sender
           dispatch_uid == call.dispatch_uid
           lookup_key == lookup_key_of(receiver, sender, dispatch_uid)
           pruned == _clear_dead_receivers(receivers, _dead_receivers, alive)
           list == disconnect_remove(pruned, lookup_key)
       IN
       /\ receiver = NoReceiver \/ receiver_object(receiver) \in alive
       /\ sender \in Senders
       /\ receivers' = list
       /\ _dead_receivers' = FALSE
       /\ sender_receivers_cache' = cache_clear(sender_receivers_cache)
       /\ connects' = Registered(connects, list)
       /\ sent' = [IdleSignal EXCEPT !.op = "disconnect",
                                     !.receiver = Some(receiver),
                                     !.sender = sender,
                                     !.dispatch_uid = dispatch_uid,
                                     !.returned = (list # pruned),
                                     !.pruned = Len(receivers) - Len(pruned),
                                     !.cleared =
                                       (sender_receivers_cache # <<>>)]
       /\ UNCHANGED <<use_caching, alive, finalizers, _cache, minted, lock, tasks>>
       /\ UNCHANGED auth_vars

\* the calls of a send that run token_blacklist_manager.close
Closing(called) ==
  {i \in DOMAIN called : called[i] = Method("manager", "close")}

\* Signal.send(sender); each receiver invoked either returns or raises an
\* Exception, and token_blacklist_manager.close runs as the receiver it is
send_call(sender) ==
  IF receivers = <<>>
  THEN /\ sent' = [IdleSignal EXCEPT !.op = "send", !.sender = sender]
       /\ UNCHANGED <<receivers, _dead_receivers, sender_receivers_cache,
                      use_caching, alive, finalizers, connects, _cache, minted, lock, tasks>>
       /\ UNCHANGED auth_vars
  ELSE IF use_caching /\ sender = None
  THEN /\ sent' = [IdleSignal EXCEPT !.op = "send", !.sender = sender,
                                     !.raised = "TypeError"]
       /\ UNCHANGED <<receivers, _dead_receivers, sender_receivers_cache,
                      use_caching, alive, finalizers, connects, _cache, minted, lock, tasks>>
       /\ UNCHANGED auth_vars
  ELSE IF cache_get(sender_receivers_cache, sender) = Some(NO_RECEIVERS)
  THEN /\ sent' = [IdleSignal EXCEPT !.op = "send", !.sender = sender]
       /\ UNCHANGED <<receivers, _dead_receivers, sender_receivers_cache,
                      use_caching, alive, finalizers, connects, _cache, minted, lock, tasks>>
       /\ UNCHANGED auth_vars
  ELSE LET lr == _live_receivers(sender)
           closing == Closing(lr.receivers)
       IN
       \E raising \in SUBSET DOMAIN lr.receivers,
          failing \in SUBSET CanFail(_cache) :
         LET responses == gather(lr.receivers, raising)
             closed == blacklist_close(_cache, failing)
         IN
         /\ closing = {} => failing = {}
         /\ \A i \in closing : (i \in raising) = (closed.raised # None)
         /\ receivers' = lr.list
         /\ _dead_receivers' = lr.dead
         /\ sender_receivers_cache' = lr.cache
         /\ connects' = Registered(connects, lr.list)
         /\ _cache' = IF closing = {} THEN _cache ELSE Some(closed.client)
         /\ sent' = [IdleSignal EXCEPT
                       !.op = "send", !.sender = sender,
                       !.raised = responses.raised,
                       !.raising = raising,
                       !.pruned = Len(receivers) - Len(lr.list),
                       !.reclosed = (closing # {} /\ IsClosed(_cache)),
                       !.result = IF responses.raised = None
                                  THEN zip(lr.receivers, responses.responses)
                                  ELSE <<>>]
         /\ UNCHANGED <<use_caching, alive, finalizers, minted, lock, tasks>>
         /\ UNCHANGED auth_vars

send ==
  /\ sent = IdleSignal
  /\ \E sender \in Senders : send_call(sender)

\* Signal.has_listeners
has_listeners ==
  /\ sent = IdleSignal
  /\ \E sender \in Senders :
       LET lr == _live_receivers(sender) IN
       /\ receivers' = lr.list
       /\ _dead_receivers' = lr.dead
       /\ sender_receivers_cache' = lr.cache
       /\ connects' = Registered(connects, lr.list)
       /\ sent' = [IdleSignal EXCEPT !.op = "has_listeners",
                                     !.sender = sender,
                                     !.raised = lr.raised,
                                     !.returned = (lr.receivers # <<>>),
                                     !.pruned = Len(receivers) - Len(lr.list)]
       /\ UNCHANGED <<use_caching, alive, finalizers, _cache, minted, lock, tasks>>
       /\ UNCHANGED auth_vars

NextSignal ==
  \/ SignalReturn
  \/ Collect
  \/ Allocate
  \/ connect
  \/ disconnect
  \/ send
  \/ has_listeners

\* a call of the blacklist manager (is_blacklisted, set, clear) reaches
\* Redis through RedisClient.get_client: the pool of the db is created on
\* first use, and the command runs on a connection of the pool, a connected
\* one that is free or one that the pool connects for it
get_client ==
  /\ sent = IdleSignal
  /\ \E db_idx \in TOKEN_BLACKLIST_DB, connecting \in BOOLEAN :
       LET client == cached_property_cache(_cache)
           pools == _get_connection_pool(client._pools, db_idx)
       IN
       /\ IF connecting THEN pools[db_idx] < MaxConnections
                        ELSE pools[db_idx] > 0
       /\ _cache' = Some([_pools |->
                            [pools EXCEPT ![db_idx] =
                               IF connecting THEN @ + 1 ELSE @]])
       /\ sent' = [IdleSignal EXCEPT !.op = "get_client"]
  /\ UNCHANGED <<receivers, _dead_receivers, sender_receivers_cache,
                 use_caching, alive, finalizers, connects, minted, lock, tasks>>
  /\ UNCHANGED auth_vars

\* token_blacklist_manager.close() called directly
CloseCall ==
  /\ sent = IdleSignal
  /\ \E failing \in SUBSET CanFail(_cache) :
       LET closed == blacklist_close(_cache, failing) IN
       /\ _cache' = Some(closed.client)
       /\ sent' = [IdleSignal EXCEPT !.op = "close",
                                     !.raised = closed.raised,
                                     !.reclosed = IsClosed(_cache)]
  /\ UNCHANGED <<receivers, _dead_receivers, sender_receivers_cache,
                 use_caching, alive, finalizers, connects, minted, lock, tasks>>
  /\ UNCHANGED auth_vars

\* handlers.on_startup
on_startup ==
  /\ sent = IdleSignal
  /\ connect_call(Call(Method("manager", "close"),
                       "RedisTokenBlacklistManager", TRUE,
                       "token_blacklist_manager_close"))

\* handlers.on_shutdown
on_shutdown ==
  /\ sent = IdleSignal
  /\ send_call("RedisTokenBlacklistManager")

NextLifecycle ==
  \/ SignalReturn
  \/ on_startup
  \/ on_shutdown
  \/ get_client
  \/ CloseCall

\* app_lifecycle of core/signals.py: a Signal, with or without caching
InitLifecycle ==
  /\ InitAuth
  /\ InitSignal
  /\ use_caching \in BOOLEAN

\* The application's lifespan: the startup and shutdown handlers, the
\* blacklist manager's use of its connections, and its close.
SpecLifecycle == InitLifecycle /\ [][NextLifecycle]_vars

\* Signal(use_caching=False) or Signal(use_caching=True)
InitCaching ==
  /\ InitAuth
  /\ InitSignal
  /\ use_caching \in BOOLEAN

\* A Signal, constructed with or without caching, under every order of
\* connect, disconnect, send, has_listeners and garbage collection.
SpecSignal == InitCaching /\ [][NextSignal]_vars

----------------------------------------------------------------------------
(* Signal: calls in flight together.  A call gives way to the other tasks *)
(* where the code awaits: at `async with self.lock`, entering and leaving, *)
(* at `await self._live_receivers(sender)` and at asyncio.gather; what     *)
(* lies between two such points is one step.                               *)

\* The calls explored: one receiver registered weakly for a sender and
\* strongly for every sender; sends and has_listeners for that sender and
\* for a sender object that can be collected.  Task t1 only sends, task t2
\* makes every call.
RaceConnects ==
  { Call(Function("f1"), "s2", TRUE, None),
    Call(Function("f1"), None, FALSE, None) }

RaceDisconnects ==
  {Call(c.receiver, c.sender, FALSE, c.dispatch_uid) : c \in RaceConnects}

RaceSenders == {"s1", "s2"}

Caller == "t2"

\* the registrations for which a disconnect has returned True when task t
\* starts a call (its own previous call included), none of them connected
\* again since
DisconnectedBefore(t) ==
  {[lookup_key |-> lookup_key_of(tasks[u].call.receiver,
                                 tasks[u].call.sender,
                                 tasks[u].call.dispatch_uid),
    receiver |-> The(tasks[u].removed)] :
     u \in {v \in Tasks : tasks[v].pc = "done"
                            /\ tasks[v].removed # Nothing}}

\* connect up to `async with self.lock`: the lookup key, the reference to
\* the receiver and, for a weak one, the finalizer on the receiver's object
connect_begin ==
  \E t \in {Caller}, call \in RaceConnects :
    /\ tasks[t].pc = "done"
    /\ call.sender \in Senders
    /\ receiver_object(call.receiver) \in alive
    /\ Len(receivers)
         + Cardinality({u \in Tasks : /\ tasks[u].op = "connect"
                                      /\ tasks[u].pc # "done"})
         < MaxReceivers
    /\ finalizers' = IF call.weak
                        /\ receiver_object(call.receiver) \in Collectable
                     THEN finalizers \cup {receiver_object(call.receiver)}
                     ELSE finalizers
    /\ tasks' = [tasks EXCEPT ![t] = [IdleTask EXCEPT !.op = "connect",
                                                      !.pc = "lock",
                                                      !.call = call]]
    /\ UNCHANGED <<receivers, _dead_receivers, sender_receivers_cache,
                   use_caching, alive, sent, connects, _cache, minted, lock>>
    /\ UNCHANGED auth_vars

\* disconnect up to `async with self.lock`
disconnect_begin ==
  \E t \in {Caller}, call \in RaceDisconnects :
    /\ tasks[t].pc = "done"
    /\ call.sender \in Senders
    /\ receiver_object(call.receiver) \in alive
    /\ tasks' = [tasks EXCEPT ![t] = [IdleTask EXCEPT !.op = "disconnect",
                                                      !.pc = "lock",
                                                      !.call = call]]
    /\ UNCHANGED <<receivers, _dead_receivers, sender_receivers_cache,
                   use_caching, alive, finalizers, sent, connects, _cache,
                   minted, lock>>
    /\ UNCHANGED auth_vars

\* send up to `await self._live_receivers(sender)`: it returns [] at once
\* when the list is empty or the cache holds NO_RECEIVERS for the sender
send_begin ==
  \E t \in Tasks, sender \in RaceSenders \cap alive :
    LET held == (lock = Some(t))
        early == \/ receivers = <<>>
                 \/ cache_get(sender_receivers_cache, sender)
                      = Some(NO_RECEIVERS)
    IN
    /\ tasks[t].pc = "done"
    /\ tasks' = [tasks EXCEPT ![t] =
                   [IdleTask EXCEPT
                      !.op = "send",
                      !.pc = IF early THEN "done" ELSE "lookup",
                      !.call.sender = sender,
                      !.barred = DisconnectedBefore(t),
                      !.accesses =
                        {Access("receivers", "read", held)}
                          \cup (IF receivers # <<>>
                                THEN {Access("cache", "read", held)}
                                ELSE {})]]
    /\ UNCHANGED <<receivers, _dead_receivers, sender_receivers_cache,
                   use_caching, alive, finalizers, sent, connects, _cache,
                   minted, lock>>
    /\ UNCHANGED auth_vars

\* has_listeners up to `await self._live_receivers(sender)`
has_listeners_begin ==
  \E t \in {Caller}, sender \in RaceSenders \cap alive :
    /\ tasks[t].pc = "done"
    /\ tasks' = [tasks EXCEPT ![t] =
                   [IdleTask EXCEPT !.op = "has_listeners",
                                    !.pc = "lookup",
                                    !.call.sender = sender,
                                    !.barred = DisconnectedBefore(t)]]
    /\ UNCHANGED <<receivers, _dead_receivers, sender_receivers_cache,
                   use_caching, alive, finalizers, sent, connects, _cache,
                   minted, lock>>
    /\ UNCHANGED auth_vars

\* what a call does with the callables _live_receivers returns: has_listeners
\* returns whether there is one, send goes on to asyncio.gather
Returned(task, callables) ==
  IF task.op = "has_listeners"
  THEN [task EXCEPT !.pc = "done", !.receivers = Nothing,
                    !.returned = (callables # <<>>)]
  ELSE [task EXCEPT !.pc = "gather", !.called = callables]

\* _live_receivers up to `async with self.lock`: with caching, and no dead
\* receiver flagged, the cache is read without the lock; a hit is
\* dereferenced and returned, a miss goes for the lock
lookup ==
  \E t \in Tasks :
    LET sender == tasks[t].call.sender
        held == (lock = Some(t))
        reads == use_caching /\ ~_dead_receivers
        found == IF reads THEN cache_get(sender_receivers_cache, sender)
                          ELSE Nothing
        task == [tasks[t] EXCEPT
                   !.accesses = IF reads
                                THEN {Access("cache", "read", held)}
                                ELSE {}]
    IN
    /\ tasks[t].pc = "lookup"
    /\ tasks' = [tasks EXCEPT ![t] =
         IF found = Nothing
         THEN [task EXCEPT !.pc = "lock", !.missed = reads]
         ELSE IF found = Some(NO_RECEIVERS)
         THEN Returned([task EXCEPT !.receivers = Some(<<>>)], <<>>)
         ELSE Returned([task EXCEPT !.receivers = Some(The(found).handles)],
                       non_weak_receivers(The(found).handles, alive))]
    /\ UNCHANGED <<receivers, _dead_receivers, sender_receivers_cache,
                   use_caching, alive, finalizers, sent, connects, _cache,
                   minted, lock>>
    /\ UNCHANGED auth_vars

\* `async with self.lock`: the task goes on when the lock is free
acquire ==
  \E t \in Tasks :
    /\ tasks[t].pc = "lock"
    /\ lock = Nothing
    /\ lock' = acquire_lock(lock, t)
    /\ tasks' = [tasks EXCEPT ![t].pc = "locked", ![t].accesses = {}]
    /\ UNCHANGED <<receivers, _dead_receivers, sender_receivers_cache,
                   use_caching, alive, finalizers, sent, connects, _cache,
                   minted>>
    /\ UNCHANGED auth_vars

\* the body of connect's `async with self.lock`, and leaving it
connect_locked ==
  \E t \in Tasks :
    LET call == tasks[t].call
        held == (lock = Some(t))
        lookup_key == lookup_key_of(call.receiver, call.sender,
                                    call.dispatch_uid)
        pruned == _clear_dead_receivers(receivers, _dead_receivers, alive)
        list == connect_append(pruned, lookup_key,
                               Handle(call.receiver, call.weak))
    IN
    /\ tasks[t].op = "connect"
    /\ tasks[t].pc = "locked"
    /\ receivers' = list
    /\ _dead_receivers' = FALSE
    /\ sender_receivers_cache' = cache_clear(sender_receivers_cache)
    /\ lock' = release_lock(lock, t)
    /\ tasks' =
         [u \in Tasks |->
            IF u = t
            THEN [tasks[t] EXCEPT
                    !.pc = "done",
                    !.accesses = {Access("receivers", "read", held),
                                  Access("receivers", "write", held),
                                  Access("cache", "write", held)}]
            ELSE [tasks[u] EXCEPT
                    !.removed =
                      IF lookup_key_of(tasks[u].call.receiver,
                                       tasks[u].call.sender,
                                       tasks[u].call.dispatch_uid)
                           = lookup_key
                      THEN Nothing ELSE @,
                    !.barred = {b \in @ : b.lookup_key # lookup_key}]]
    /\ UNCHANGED <<use_caching, alive, finalizers, sent, connects, _cache,
                   minted>>
    /\ UNCHANGED auth_vars

\* the body of disconnect's `async with self.lock`, and leaving it
disconnect_locked ==
  \E t \in Tasks :
    LET call == tasks[t].call
        held == (lock = Some(t))
        lookup_key == lookup_key_of(call.receiver, call.sender,
                                    call.dispatch_uid)
        pruned == _clear_dead_receivers(receivers, _dead_receivers, alive)
        list == disconnect_remove(pruned, lookup_key)
        disconnected == (list # pruned)
        entry == CHOOSE e \in Range(pruned) : e.lookup_key = lookup_key
    IN
    /\ tasks[t].op = "disconnect"
    /\ tasks[t].pc = "locked"
    /\ receivers' = list
    /\ _dead_receivers' = FALSE
    /\ sender_receivers_cache' = cache_clear(sender_receivers_cache)
    /\ lock' = release_lock(lock, t)
    /\ tasks' =
         [tasks EXCEPT
            ![t] = [tasks[t] EXCEPT
                      !.pc = "done",
                      !.returned = disconnected,
                      !.removed = IF disconnected
                                  THEN Some(entry.receiver.target)
                                  ELSE Nothing,
                      !.accesses = {Access("receivers", "read", held),
                                    Access("receivers", "write", held),
                                    Access("cache", "write", held)}]]
    /\ UNCHANGED <<use_caching, alive, finalizers, sent, connects, _cache,
                   minted>>
    /\ UNCHANGED auth_vars

\* the body of _live_receivers' `async with self.lock`, and leaving it:
\* dead entries are pruned, the entries for the sender collected and, with
\* caching, stored in the cache
resolve_locked ==
  \E t \in Tasks :
    LET sender == tasks[t].call.sender
        held == (lock = Some(t))
        pruned == _clear_dead_receivers(receivers, _dead_receivers, alive)
        found == matching_receivers(pruned, sender)
    IN
    /\ tasks[t].op \in {"send", "has_listeners"}
    /\ tasks[t].pc = "locked"
    /\ receivers' = pruned
    /\ _dead_receivers' = FALSE
    /\ sender_receivers_cache' =
         IF use_caching
         THEN cache_set(sender_receivers_cache, sender, found)
         ELSE sender_receivers_cache
    /\ lock' = release_lock(lock, t)
    /\ tasks' =
         [tasks EXCEPT
            ![t] = [tasks[t] EXCEPT
                      !.pc = "deref",
                      !.receivers = Some(found),
                      !.accesses =
                        {Access("receivers", "read", held)}
                          \cup (IF _dead_receivers
                                THEN {Access("receivers", "write", held)}
                                ELSE {})
                          \cup (IF use_caching
                                THEN {Access("cache", "write", held)}
                                ELSE {})]]
    /\ UNCHANGED <<use_caching, alive, finalizers, sent, connects, _cache,
                   minted>>
    /\ UNCHANGED auth_vars

\* _live_receivers after the lock: the receivers found are dereferenced
deref ==
  \E t \in Tasks :
    /\ tasks[t].pc = "deref"
    /\ tasks' = [tasks EXCEPT ![t] =
                   Returned([tasks[t] EXCEPT !.accesses = {}],
                            non_weak_receivers(The(tasks[t].receivers),
                                               alive))]
    /\ UNCHANGED <<receivers, _dead_receivers, sender_receivers_cache,
                   use_caching, alive, finalizers, sent, connects, _cache,
                   minted, lock>>
    /\ UNCHANGED auth_vars

\* send's asyncio.gather: the receivers called have all returned (what a
\* raising receiver changes is explored by the action send)
gather_join ==
  \E t \in Tasks :
    LET responses == gather(tasks[t].called, {}) IN
    /\ tasks[t].pc = "gather"
    /\ tasks' = [tasks EXCEPT ![t].pc = "done",
                              ![t].accesses = {},
                              ![t].receivers = Nothing,
                              ![t].called = <<>>,
                              ![t].result = zip(tasks[t].called,
                                                responses.responses)]
    /\ UNCHANGED <<receivers, _dead_receivers, sender_receivers_cache,
                   use_caching, alive, finalizers, sent, connects, _cache,
                   minted, lock>>
    /\ UNCHANGED auth_vars

NextRace ==
  \/ Collect
  \/ connect_begin
  \/ disconnect_begin
  \/ send_begin
  \/ has_listeners_begin
  \/ lookup
  \/ acquire
  \/ connect_locked
  \/ disconnect_locked
  \/ resolve_locked
  \/ deref
  \/ gather_join

\* Two tasks that call connect, disconnect, send and has_listeners on one
\* Signal, constructed with or without caching, in every interleaving of
\* their steps and of garbage collection.
SpecRace == InitCaching /\ [][NextRace]_vars

----------------------------------------------------------------------------
(* Properties *)

\* the row a subject string names, if any (used by the properties only)
RowOf(sub) == {u \in users : str(u.id) = sub}

\* C1: read_token returns a principal only for a token whose signature was
\* made with the configured key pair under the single configured algorithm,
\* whose audience is the configured one and whose expiry lies in the future.
C1_PrincipalOnlyIfVerified ==
  (last.op = "read_token" /\ last.user # Nothing) =>
    LET t == The(last.token) IN
      /\ t.wf
      /\ t.alg = "RS256"
      /\ t.key = PRIVATE_KEY
      /\ t.aud = "backend:authentication"
      /\ now < t.exp

C1_Witness ==
  /\ last.op = "read_token"
  /\ last.user # Nothing
  /\ The(last.token) \in issued

\* C2: a read_token call made while the store holds an entry for the token
\* returns no principal, even when the token is otherwise valid.
C2_RevokedRejected ==
  (/\ last.op = "read_token"
   /\ \E e \in blacklist : e.key = <<"user", The(last.token)>>)
    => last.user = Nothing

C2_Witness ==
  /\ last.op = "read_token"
  /\ redis_up
  /\ \E e \in blacklist : e.key = <<"user", The(last.token)>>
  /\ LET t == The(last.token) IN
       /\ t \in issued
       /\ t.typ = last.kind
       /\ now < t.exp
       /\ RowOf(t.sub) # {}
  /\ last.user = Nothing

\* C3: kind isolation: a token write_token issued with one kind is never
\* accepted by read_token when the other kind is required.
C3_KindIsolation ==
  (/\ last.op = "read_token"
   /\ The(last.token) \in issued
   /\ The(last.token).typ # last.kind)
    => last.user = Nothing

C3_Witness ==
  /\ last.op = "read_token"
  /\ redis_up
  /\ LET t == The(last.token) IN
       /\ t \in issued
       /\ t.typ # last.kind
       /\ now < t.exp
       /\ RowOf(t.sub) # {}
       /\ ~ \E e \in blacklist : e.key = <<"user", t>>
  /\ last.user = Nothing
  /\ last.raised = None

\* C4 (as amended): once a completed logout has blacklisted a validated
\* access or refresh token, every read_token call on it returns no principal,
\* as long as the store has not been cleared since that logout.
C4_LoggedOutRejected ==
  (last.op = "read_token" /\ The(last.token) \in revoked)
    => last.user = Nothing

C4_Witness ==
  /\ last.op = "read_token"
  /\ redis_up
  /\ LET t == The(last.token) IN
       /\ t \in revoked
       /\ t.typ = REFRESH_TOKEN
       /\ last.kind = REFRESH_TOKEN
       /\ now < t.exp
       /\ RowOf(t.sub) # {}
  /\ last.user = Nothing

\* C4 (as claimed): a token a completed logout has blacklisted is rejected by
\* read_token, called with the token's own kind, in every later state.
C4_Original ==
  [][\A t \in revoked : (read_token(t, t.typ).user = Nothing)']_vars

\* C5 (as amended): round trip: read_token on a token write_token issued for
\* an existing principal, with the kind it was issued for, returns that
\* principal provided the token is not blacklisted, not expired, the
\* principal's row still exists and the store answers the membership query.
C5_RoundTrip ==
  (/\ last.op = "read_token"
   /\ redis_up
   /\ LET t == The(last.token) IN
        /\ t \in issued
        /\ t.typ = last.kind
        /\ now < t.exp
        /\ RowOf(t.sub) # {}
        /\ ~ \E e \in blacklist : e.key = <<"user", t>>)
    => /\ last.raised = None
       /\ last.user = RowOf(The(last.token).sub)

C5_Witness ==
  /\ last.op = "read_token"
  /\ The(last.token) \in issued
  /\ last.kind = REFRESH_TOKEN
  /\ last.user = RowOf(The(last.token).sub)
  /\ last.user # Nothing

\* C5 (as claimed): the same without the proviso on the store.
C5_Original ==
  (/\ last.op = "read_token"
   /\ LET t == The(last.token) IN
        /\ t \in issued
        /\ t.typ = last.kind
        /\ now < t.exp
        /\ RowOf(t.sub) # {}
        /\ ~ \E e \in blacklist : e.key = <<"user", t>>)
    => last.user = RowOf(The(last.token).sub)

\* a token read_token must turn down when kind k is required
Invalid(t, k) ==
  \/ \E e \in blacklist : e.key = <<"user", t>>
  \/ ~t.wf \/ t.alg # "RS256" \/ t.key # PRIVATE_KEY
  \/ t.aud # "backend:authentication"
  \/ t.exp <= now
  \/ t.sub = None \/ t.typ = None
  \/ t.typ # k
  \/ RowOf(t.sub) = {}

\* C6 (as amended): when the store answers the membership query, every
\* token-validation failure (revoked, bad signature, wrong audience, expired,
\* no subject or kind claim, wrong kind, malformed subject, unknown
\* principal) gives the same result (None, None) and raises nothing.
C6_FailuresCollapse ==
  (/\ last.op = "read_token"
   /\ redis_up
   /\ Invalid(The(last.token), last.kind))
    => /\ last.raised = None
       /\ last.user = Nothing
       /\ last.exp = Nothing

C6_Witness ==
  /\ last.op = "read_token"
  /\ redis_up
  /\ LET t == The(last.token) IN
       /\ t \in issued
       /\ t.typ = last.kind
       /\ now < t.exp
       /\ RowOf(t.sub) = {}
       /\ ~ \E e \in blacklist : e.key = <<"user", t>>
  /\ last.raised = None
  /\ last.user = Nothing

\* C6 (as claimed): the same for every state of the store.
C6_Original ==
  (/\ last.op = "read_token"
   /\ Invalid(The(last.token), last.kind))
    => /\ last.raised = None
       /\ last.user = Nothing
       /\ last.exp = Nothing

\* C7: while the store is unreachable read_token raises the store's error
\* instead of returning, so it yields neither a principal nor (None, None),
\* and the refresh and logout routes authenticate nobody.
C7_StoreFailurePropagates ==
  ~redis_up =>
    /\ last.op = "read_token" =>
         /\ last.raised = "ConnectionError"
         /\ last.user = Nothing
    /\ last.op \in {"refresh", "logout"} /\ last.token # Nothing =>
         /\ last.raised = "ConnectionError"
         /\ last.user = Nothing

C7_Witness ==
  /\ ~redis_up
  /\ last.op = "read_token"
  /\ last.raised = "ConnectionError"
  /\ LET t == The(last.token) IN
       /\ t \in issued
       /\ t.typ = last.kind
       /\ now < t.exp
       /\ RowOf(t.sub) # {}

\* what read_token returns for the token the resolver was handed
Read == read_token(The(last.token), last.kind)

flag_optional == last.flags[1]
flag_active == last.flags[2]
flag_verified == last.flags[3]
flag_superuser == last.flags[4]

\* C8: with optional false, a resolver that was handed no token of the
\* required kind, or whose read_token call returned no principal, fails with
\* 401, whatever the active, verified and superuser flags are.
C8_Absent401 ==
  (/\ last.op = "authenticate"
   /\ ~flag_optional
   /\ \/ last.token = Nothing
      \/ Read.raised = None /\ Read.user = Nothing)
    => /\ last.raised = "HTTPException"
       /\ last.status = 401
       /\ last.user = Nothing

C8_Witness ==
  /\ last.op = "authenticate"
  /\ ~flag_optional /\ ~flag_active /\ flag_verified /\ flag_superuser
  /\ last.token # Nothing
  /\ Read.raised = None /\ Read.user = Nothing
  /\ last.status = 401

\* the principal read_token returned passes the active check and fails a
\* required verified or superuser check
Forbidden ==
  /\ last.op = "authenticate"
  /\ last.token # Nothing
  /\ Read.user # Nothing
  /\ ~flag_active \/ The(Read.user).is_active
  /\ \/ flag_verified /\ ~The(Read.user).is_verified
     \/ flag_superuser /\ ~The(Read.user).is_superuser

C10_InactiveAbsent ==
  (/\ last.op = "authenticate"
   /\ last.token # Nothing
   /\ Read.user # Nothing
   /\ flag_active
   /\ ~The(Read.user).is_active)
    => IF flag_optional
       THEN last.raised = None /\ last.user = Nothing
       ELSE last.raised = "HTTPException" /\ last.status = 401

C10_Witness ==
  /\ last.op = "authenticate"
  /\ last.token # Nothing
  /\ Read.user # Nothing
  /\ flag_active /\ ~flag_optional /\ flag_verified /\ flag_superuser
  /\ ~The(Read.user).is_active
  /\ ~The(Read.user).is_verified
  /\ ~The(Read.user).is_superuser
  /\ last.status = 401

\* C11: with optional true, a resolver that was handed no token of the
\* required kind returns a None principal (and no expiry) without raising;
\* it asks neither read_token nor the store, so it does so even while the
\* store is unreachable and whatever token of the other kind came along.
C11_OptionalNoToken ==
  (/\ last.op = "authenticate"
   /\ flag_optional
   /\ last.token = Nothing)
    => /\ last.raised = None
       /\ last.user = Nothing
       /\ last.exp = Nothing

C11_Witness ==
  /\ last.op = "authenticate"
  /\ flag_optional /\ flag_active /\ flag_verified
  /\ last.token = Nothing
  /\ last.kind = REFRESH_TOKEN
  /\ ~redis_up
  /\ last.raised = None
  /\ last.user = Nothing

\* the keys the store holds
Keys(store) == {e.key : e \in store}

\* C12: a completed logout leaves an entry for the access token and, exactly
\* when a refresh cookie was presented, one for the cookie's value, and adds
\* or removes no other key; a logout without a refresh cookie adds exactly
\* one entry, and every refresh token that read_token accepted before it is
\* accepted after it, for the same principal.
C12_LogoutWrites ==
  [][(last'.op = "logout" /\ last'.raised = None) =>
       /\ Keys(blacklist') =
            Keys(blacklist) \cup {<<"user", The(last'.token)>>}
              \cup {<<"user", c>> : c \in last'.cookie}
       /\ last'.cookie = Nothing =>
            /\ Cardinality(blacklist') = Cardinality(blacklist) + 1
            /\ \A t \in issued :
                 (t.typ = REFRESH_TOKEN
                    /\ read_token(t, REFRESH_TOKEN).user # Nothing)
                   => read_token(t, REFRESH_TOKEN)'.user
                        = read_token(t, REFRESH_TOKEN).user
    ]_vars

C12_Witness ==
  /\ last.op = "logout"
  /\ last.raised = None
  /\ last.cookie = Nothing
  /\ Cardinality(blacklist) = 1
  /\ \E t \in issued :
       /\ t.typ = REFRESH_TOKEN
       /\ t.sub = The(last.token).sub
       /\ read_token(t, REFRESH_TOKEN).user = last.user
       /\ last.user # Nothing

\* C13: a completed refresh returns one access token minted for the
\* principal of the presented refresh token with the full access lifetime,
\* writes no other token and no refresh token, sets no refresh cookie and
\* leaves the store as it was: read_token gives for every token issued
\* before the same result as before the refresh, and still accepts the
\* presented refresh token.
C13_RefreshIssuesAccessOnly ==
  [][(last'.op = "refresh" /\ last'.raised = None) =>
       /\ \E a \in issued' :
            /\ last'.body = {a}
            /\ issued' = issued \cup {a}
            /\ a.typ = ACCESS_TOKEN
            /\ a.sub = The(last'.token).sub
            /\ a.exp = now + lifetime_seconds[ACCESS_TOKEN]
       /\ last'.cookie = Nothing
       /\ blacklist' = blacklist
       /\ \A t \in issued : read_token(t, t.typ)' = read_token(t, t.typ)
       /\ \E t \in issued :
            /\ last'.token = {t}
            /\ read_token(t, REFRESH_TOKEN)'.user = last'.user
       /\ last'.user # Nothing
    ]_vars

\* a refresh has completed while an access token issued earlier to the same
\* principal, with another expiry, is still accepted
C13_Witness ==
  /\ last.op = "refresh"
  /\ last.raised = None
  /\ \E old \in issued :
       /\ old.typ = ACCESS_TOKEN
       /\ old.sub = The(last.body).sub
       /\ old.exp < The(last.body).exp
       /\ read_token(old, ACCESS_TOKEN).user = last.user
       /\ last.user # Nothing
  /\ read_token(The(last.token), REFRESH_TOKEN).user = last.user

\* C14: a completed login has minted an access token and a refresh token for
\* the principal, each with its full lifetime; the response carries the
\* access token in its body and the refresh token in the refresh cookie.
\* Over logins and refreshes alike the cookie is set exactly when a refresh
\* token was minted, that is on a login and not on a refresh.
C14_LoginIssuesBoth ==
  (last.op \in {"login", "refresh"} /\ last.raised = None) =>
    /\ last.status = 200
    /\ \E a \in issued :
         /\ last.body = {a}
         /\ a.typ = ACCESS_TOKEN
         /\ a.sub = str(The(last.user).id)
         /\ a.exp = now + lifetime_seconds[ACCESS_TOKEN]
    /\ last.op = "login" =>
         \E r \in issued :
           /\ last.cookie = {r}
           /\ r.typ = REFRESH_TOKEN
           /\ r.sub = str(The(last.user).id)
           /\ r.exp = now + lifetime_seconds[REFRESH_TOKEN]
    /\ last.cookie # Nothing <=> last.op = "login"

C14_Witness ==
  /\ last.op = "login"
  /\ last.raised = None
  /\ last.body # Nothing
  /\ last.cookie # Nothing
  /\ The(last.cookie) # The(last.body)
  /\ read_token(The(last.body), ACCESS_TOKEN).user = last.user
  /\ read_token(The(last.cookie), REFRESH_TOKEN).user = last.user
  /\ last.user # Nothing

\* C15 (as claimed): the second component read_token returns for an accepted
\* token is the token's remaining lifetime (its expiry minus the current
\* time), and the entry a completed logout stores for the access token
\* therefore expires when the token does.
C15_Original ==
  /\ (last.op = "read_token" /\ last.user # Nothing) =>
       last.exp = {The(last.token).exp - now}
  /\ (last.op = "logout" /\ last.raised = None /\ last.cookie # last.token) =>
       \A e \in blacklist :
         e.key = <<"user", The(last.token)>> =>
           e.expire_at = {The(last.token).exp}

\* C16 (as claimed): every entry of the store, all of which logout wrote,
\* carries a finite time-to-live.
C16_Original ==
  \A e \in blacklist : e.expire_at # Nothing

\* C17: an entry of the store whose token has not expired survives every
\* step other than a clear of the store, and read_token returns no principal
\* for its token after the step, whichever kind is required.
C17_EntryOutlivesToken ==
  [][\A e \in blacklist :
       (last'.op # "clear" /\ now' < e.key[2].exp) =>
         /\ \E e2 \in blacklist' : e2.key = e.key
         /\ \A k \in TokenTypes : read_token(e.key[2], k)'.user = Nothing
    ]_vars

\* the token of an entry written by logout has reached its expiry and the
\* entry is still there
C17_Witness ==
  \E e \in blacklist :
    /\ e.key[2] \in issued
    /\ e.key[2].typ = ACCESS_TOKEN
    /\ e.key[2].exp = now
    /\ e.expire_at # Nothing

\* the entries of the receiver list a send for the sender resolves: those
\* registered for the wildcard or for the sender whose receiver is alive
Resolved(sender) ==
  SelectSeq(receivers,
            LAMBDA e : /\ e.lookup_key[2] \in {Address[None], Address[sender]}
                       /\ ~(e.receiver.weak
                            /\ receiver_object(e.receiver.target) \notin alive))

\* C18: when a receiver raises during send, send itself raises nothing and
\* returns one pair for every receiver resolved for the sender, in the order
\* of the receiver list: the receiver with the exception it raised, or with
\* the result it returned.
C18_ReceiverFailureIsolated ==
  (sent.op = "send" /\ sent.raising # {}) =>
    /\ sent.raised = None
    /\ sent.result =
         [i \in DOMAIN Resolved(sent.sender) |->
            LET r == Resolved(sent.sender)[i].receiver.target IN
            <<r, IF i \in sent.raising THEN "Exception" ELSE "returned">>]

C18_Witness ==
  /\ sent.op = "send"
  /\ sent.raised = None
  /\ \E i, j \in DOMAIN sent.result :
       /\ i < j
       /\ sent.result[i][2] = "Exception"
       /\ sent.result[j][2] = "returned"
       /\ sent.result[i][1] # sent.result[j][1]

\* how often the last send invoked callable c
InvokedCount(c) ==
  Cardinality({i \in DOMAIN sent.result : sent.result[i][1] = c})

\* the registrations of callable c a send for the sender resolves
RegistrationsOf(c, sender) ==
  {i \in DOMAIN Resolved(sender) : Resolved(sender)[i].receiver.target = c}

\* a send for a sender the registration of triple t matches has returned
\* while t's receiver is alive
SentTo(t) ==
  /\ sent.op = "send"
  /\ sent.raised = None
  /\ t.sender = None \/ t.sender = sent.sender
  /\ receiver_object(t.receiver) \in alive

\* C19 (as amended): while a (receiver, sender, dispatch_uid) connected twice
\* stays registered, the list holds exactly one entry under its lookup_key,
\* holding that receiver, and a send for that sender invokes the receiver
\* once for each registration of it that matches the sender: exactly once
\* when that registration is its only one.
C19_ConnectTwice ==
  \A k \in DOMAIN connects :
    connects[k].n = 2 =>
      LET t == connects[k].triple IN
      /\ Cardinality({i \in DOMAIN receivers :
                        receivers[i].lookup_key = k}) = 1
      /\ \A i \in DOMAIN receivers :
           receivers[i].lookup_key = k =>
             receivers[i].receiver.target = t.receiver
      /\ SentTo(t) =>
           /\ InvokedCount(t.receiver)
                = Cardinality(RegistrationsOf(t.receiver, sent.sender))
           /\ InvokedCount(t.receiver) >= 1

C19_Witness ==
  \E k \in DOMAIN connects :
    /\ connects[k].n = 2
    /\ SentTo(connects[k].triple)
    /\ Len(receivers) = 2
    /\ InvokedCount(connects[k].triple.receiver) = 1

\* C19 (as claimed): in that case the send invokes the receiver exactly once.
C19_Original ==
  \A k \in DOMAIN connects :
    (connects[k].n = 2 /\ SentTo(connects[k].triple)) =>
      InvokedCount(connects[k].triple.receiver) = 1

\* the entries whose receiver is not a dead weak reference
Live(list) ==
  SelectSeq(list,
            LAMBDA e : ~(e.receiver.weak
                         /\ receiver_object(e.receiver.target) \notin alive))

\* the lookup_key of the connect whose outcome is in sent
KeyOfCall(call) ==
  IF call.dispatch_uid # None
  THEN <<[uid |-> call.dispatch_uid, ids |-> <<>>], Address[call.sender]>>
  ELSE <<[uid |-> "",
          ids |-> IF The(call.receiver).self # None
                  THEN <<Address[The(call.receiver).self],
                         Address[The(call.receiver).func]>>
                  ELSE <<Address[The(call.receiver).func]>>],
         Address[call.sender]>>

NoDuplicateKeys(list) ==
  \A i, j \in DOMAIN list : list[i].lookup_key = list[j].lookup_key => i = j

\* C20 (as amended): no two entries of the receiver list ever have the same
\* lookup_key.  A connect removes the dead weak entries, and then appends
\* nothing if a remaining entry has its lookup_key, and otherwise appends
\* its own entry; so a connect whose key is held by a live entry changes the
\* list only by the removal of dead entries.
C20_UniqueKeys ==
  [][/\ NoDuplicateKeys(receivers')
     /\ sent'.op = "connect" =>
          LET k == KeyOfCall(sent') IN
          IF \E i \in DOMAIN Live(receivers) : Live(receivers)[i].lookup_key = k
          THEN receivers' = Live(receivers)
          ELSE /\ Len(receivers') = Len(Live(receivers)) + 1
               /\ SubSeq(receivers', 1, Len(Live(receivers))) = Live(receivers)
               /\ receivers'[Len(receivers')].lookup_key = k
               /\ receivers'[Len(receivers')].receiver.target
                    = The(sent'.receiver)
    ]_vars

\* a connect has found its lookup_key registered by another receiver
C20_Witness ==
  /\ sent.op = "connect"
  /\ KeyOfCall(sent) \in DOMAIN connects
  /\ connects[KeyOfCall(sent)].triple.receiver # The(sent.receiver)
  /\ \A i \in DOMAIN receivers :
       receivers[i].lookup_key = KeyOfCall(sent) =>
         receivers[i].receiver.target # The(sent.receiver)
  /\ Len(receivers) = 2

\* C20 (as claimed): a connect whose lookup_key is in the list when it is
\* called leaves the list unchanged.
C20_Original ==
  [][(/\ sent'.op = "connect"
      /\ \E i \in DOMAIN receivers :
           receivers[i].lookup_key = KeyOfCall(sent'))
       => receivers' = receivers]_vars

\* the entries of a list that are weak references to a collected object
DeadEntries(list, live) ==
  {i \in DOMAIN list :
     /\ list[i].receiver.weak
     /\ receiver_object(list[i].receiver.target) \notin live}

\* the operation whose outcome is in sent' ran the receiver resolution
\* (_live_receivers) or is a connect or a disconnect
Accessed ==
  \/ sent'.op \in {"connect", "disconnect", "has_listeners"}
  \/ /\ sent'.op = "send"
     /\ receivers # <<>>
     /\ ~(use_caching /\ sent'.sender = None)
     /\ ~(sent'.sender \in DOMAIN sender_receivers_cache
          /\ sender_receivers_cache[sent'.sender] = NO_RECEIVERS)

\* C21: once the object owning a weakly connected receiver is collected, no
\* send invokes the receiver, has_listeners answers for a sender from the
\* entries whose receiver is alive only, and the next connect, disconnect or
\* receiver resolution leaves no entry of a collected receiver in the list,
\* with and without caching.
C21_CollectedUnregistered ==
  [][/\ sent'.op = "send" =>
          \A i \in DOMAIN sent'.result :
            receiver_object(sent'.result[i][1]) \in alive
     /\ (sent'.op = "has_listeners" /\ sent'.raised = None) =>
          sent'.returned =
            (\E i \in DOMAIN receivers \ DeadEntries(receivers, alive) :
               receivers[i].lookup_key[2]
                 \in {Address[None], Address[sent'.sender]})
     /\ Accessed =>
          /\ DeadEntries(receivers', alive') = {}
          /\ sent'.pruned = Cardinality(DeadEntries(receivers, alive))
    ]_vars

\* a send has removed the entry of a collected receiver and invoked the
\* receivers that are left for the sender
C21_Witness ==
  /\ sent.op = "send"
  /\ sent.pruned > 0
  /\ sent.result # <<>>

\* the callables of the live entries of the list whose registration was
\* made for the wildcard or for the sender object itself
InvokedFor(sender) ==
  LET matching ==
        SelectSeq(receivers,
                  LAMBDA e :
                    /\ e.lookup_key \in DOMAIN connects
                    /\ connects[e.lookup_key].triple.sender \in {None, sender}
                    /\ ~(e.receiver.weak
                         /\ receiver_object(e.receiver.target) \notin alive))
  IN [i \in DOMAIN matching |-> matching[i].receiver.target]

\* C22 (as claimed): a send for a sender object invokes exactly the live
\* receivers registered for the wildcard or for that very object, and never
\* a receiver registered for another sender object.
C22_Original ==
  (sent.op = "send" /\ sent.sender # None /\ sent.raised = None) =>
    [i \in DOMAIN sent.result |-> sent.result[i][1]] = InvokedFor(sent.sender)

\* a list without its entries under the key, the others in their order
Without(list, k) ==
  SelectSeq(list, LAMBDA e : e.lookup_key # k)

\* C23 (as amended): disconnect first removes the entries whose weak
\* receiver was collected.  It returns True if and only if one of the
\* remaining entries has the computed lookup_key; then exactly that entry is
\* removed as well and every other live entry keeps its presence and order;
\* otherwise it returns False and the list is left with its live entries.
C23_DisconnectRemoves ==
  [][sent'.op = "disconnect" =>
       LET k == KeyOfCall(sent') IN
       /\ sent'.returned =
            (\E i \in DOMAIN Live(receivers) : Live(receivers)[i].lookup_key = k)
       /\ receivers' = Without(Live(receivers), k)
       /\ Len(receivers') =
            Len(Live(receivers)) - (IF sent'.returned THEN 1 ELSE 0)
    ]_vars

\* a disconnect has removed one entry and left another
C23_Witness ==
  /\ sent.op = "disconnect"
  /\ sent.returned
  /\ sent.pruned = 0
  /\ receivers # <<>>

\* C23 (as claimed): disconnect returns True if and only if an entry with
\* the lookup_key was in the list; then only that entry is removed, and
\* otherwise the list is unchanged.
C23_Original ==
  [][sent'.op = "disconnect" =>
       LET k == KeyOfCall(sent') IN
       /\ sent'.returned =
            (\E i \in DOMAIN receivers : receivers[i].lookup_key = k)
       /\ receivers' = Without(receivers, k)
       /\ ~sent'.returned => receivers' = receivers
    ]_vars

\* C24: a send that resolves receivers returns one pair for each live
\* entry resolved for the sender, in the order of the list, and each pair
\* holds the receiver of that entry with the outcome of its own call, which
\* has completed: the value it returned or the exception it raised.
C24_SendJoinsAll ==
  (sent.op = "send" /\ sent.raised = None) =>
    /\ Len(sent.result) = Len(Resolved(sent.sender))
    /\ \A i \in DOMAIN sent.result :
         /\ sent.result[i][1] = Resolved(sent.sender)[i].receiver.target
         /\ sent.result[i][2] \in {"returned", "Exception"}
         /\ (sent.result[i][2] = "Exception") = (i \in sent.raising)
    /\ sent.raising \subseteq DOMAIN sent.result

\* a send has invoked two receivers, of which the second raised
C24_Witness ==
  /\ sent.op = "send"
  /\ Len(sent.result) = 2
  /\ sent.result[1][2] = "returned"
  /\ sent.result[2][2] = "Exception"

\* C25: when on_shutdown runs after on_startup has run, once or several
\* times, its send invokes token_blacklist_manager.close exactly once and
\* returns after that call has completed: the result holds the one pair of
\* close with what it returned or raised, and every pool of the client is
\* disconnected.
C25_ShutdownClosesOnce ==
  (sent.op = "send" /\ DOMAIN connects # {}) =>
    /\ sent.raised = None
    /\ Len(sent.result) = 1
    /\ sent.result[1][1] = Method("manager", "close")
    /\ sent.result[1][2] \in {"returned", "Exception"}
    /\ _cache # Nothing
    /\ \A db \in DOMAIN The(_cache)._pools : The(_cache)._pools[db] = 0

\* on_shutdown has run after two on_startup and after the manager used a
\* connection
C25_Witness ==
  /\ sent.op = "send"
  /\ \E k \in DOMAIN connects : connects[k].n = 2
  /\ sent.result = <<<<Method("manager", "close"), "returned">>>>
  /\ _cache # Nothing
  /\ DOMAIN The(_cache)._pools # {}
  /\ ~sent.reclosed

\* C26: a close of the blacklist manager that follows a close, no
\* connection having been opened in between, raises nothing and leaves the
\* client and its pools as the first close left them.
C26_CloseIdempotent ==
  [][(/\ \/ sent'.op = "close"
         \/ sent'.op = "send" /\ sent'.result # <<>>
      /\ _cache # Nothing
      /\ \A db \in DOMAIN The(_cache)._pools : The(_cache)._pools[db] = 0)
       => /\ sent'.raised = None
          /\ \A i \in DOMAIN sent'.result : sent'.result[i][2] = "returned"
          /\ _cache' = _cache
    ]_vars

\* close has run on a client whose pool an earlier close had disconnected
C26_Witness ==
  /\ sent.op = "close"
  /\ sent.reclosed
  /\ sent.raised = None
  /\ _cache # Nothing
  /\ DOMAIN The(_cache)._pools # {}

\* the token is revoked a second time by the logout whose outcome is in
\* last': it had an entry in the store before, or it was presented both as
\* the bearer token and as the refresh cookie
RevokedAgain(t) ==
  \/ has_key(_make_key(t))
  \/ last'.token = {t} /\ last'.cookie = {t}

\* C27: a logout that revokes a token a second time leaves exactly one entry
\* for the token, the token blacklisted, and the entry with the value and
\* the time-to-live of the last set call made for it (no expiry when that
\* call was given none).
C27_RevokeTwice ==
  [][(last'.op = "logout" /\ last'.status = HTTP_204_NO_CONTENT) =>
       \A t \in last'.token \cup last'.cookie :
         RevokedAgain(t) =>
           LET ex == IF last'.cookie = {t}
                     THEN read_token(t, REFRESH_TOKEN).exp
                     ELSE read_token(t, ACCESS_TOKEN).exp
           IN
           /\ Cardinality({e \in blacklist' : e.key = _make_key(t)}) = 1
           /\ is_blacklisted(t)'
           /\ \A e \in blacklist' :
                e.key = _make_key(t) =>
                  /\ e.expire_at = {now + x : x \in ex}
                  /\ e.value = The(last'.user).id
    ]_vars

\* a refresh token revoked by an earlier logout was presented as the cookie
\* of a later logout, which has set its entry again, without expiry
C27_Witness ==
  /\ last.op = "logout"
  /\ last.status = HTTP_204_NO_CONTENT
  /\ \E t \in last.cookie :
       /\ t \in revoked
       /\ t.typ = REFRESH_TOKEN
       /\ last.token # {t}
       /\ \E e \in blacklist : e.key = _make_key(t) /\ e.expire_at = Nothing

\* C28: a read_token made at the clock instant at which the token was
\* generated with a positive lifetime does not reject it as expired (it
\* returns the principal), and a token generated with lifetime 0 is rejected
\* as expired by every read_token made at that instant or later.
C28_ExpiryBoundary ==
  \A m \in minted :
    (last.op = "read_token" /\ last.token = {m.token}) =>
      LET err == decode_jwt(m.token, PUBLIC_KEY, TOKEN_AUDIENCE,
                            {ALGORITHM}).err
      IN
      /\ (m.lifetime > 0 /\ m.at = now) =>
            /\ err = None
            /\ last.kind = m.token.typ => last.user # Nothing
      /\ m.lifetime = 0 =>
            /\ err = "ExpiredSignatureError"
            /\ last.user = Nothing

\* a token generated with lifetime 0 has been read one clock unit later
C28_Witness ==
  \E m \in minted :
    /\ m.lifetime = 0
    /\ m.at < now
    /\ last.op = "read_token"
    /\ last.token = {m.token}
    /\ last.kind = m.token.typ
    /\ last.user = Nothing

\* C29: read_token runs its steps in the order blacklist query, decode_jwt
\* (signature and claims), comparison of the kind, principal lookup, and
\* stops at the first that fails: the blacklist is queried first for every
\* token, the token is decoded only if the blacklist answered that it is
\* not revoked, the kind is compared only if the token verified, and the
\* principal store is asked only if the kind matched.
C29_CheckOrder ==
  last.op = "read_token" =>
    LET t == The(last.token)
        data == decode_jwt(t, PUBLIC_KEY, TOKEN_AUDIENCE, {ALGORITHM})
        steps == <<"is_blacklisted", "decode_jwt", "token_type", "parse_id",
                   "get">>
        n == Len(last.calls)
        unrevoked == redis_up /\ ~(\E e \in blacklist :
                                     e.key = <<key_prefix, t>>)
        verifies == data.err = None /\ data.sub # None /\ data.typ # None
    IN
    /\ n \in 1..5
    /\ last.calls = SubSeq(steps, 1, n)
    /\ (n >= 2) = unrevoked
    /\ (n >= 3) = (unrevoked /\ verifies)
    /\ (n >= 4) = (unrevoked /\ verifies /\ data.typ = last.kind)
    /\ (n = 5) => \E id \in ParsableIds : str(id) = data.sub
    /\ (last.user # Nothing) => n = 5

\* read_token has stopped at the blacklist query for a revoked token that
\* verifies and is of the required kind
C29_Witness ==
  /\ last.op = "read_token"
  /\ last.calls = <<"is_blacklisted">>
  /\ redis_up
  /\ The(last.token) \in issued
  /\ The(last.token).exp > now
  /\ The(last.token).typ = last.kind

\* C30: every connect and every disconnect returns with the
\* sender-receivers cache empty, whether or not it changed the receiver
\* list; an entry enters the cache, or changes in it, only in a send or
\* has_listeners of a Signal with caching, under the sender it resolves.
C30_CacheCleared ==
  [][/\ sent'.op \in {"connect", "disconnect"} =>
          DOMAIN sender_receivers_cache' = {}
     /\ \A k \in DOMAIN sender_receivers_cache' :
          (k \notin DOMAIN sender_receivers_cache
             \/ sender_receivers_cache'[k] # sender_receivers_cache[k]) =>
            /\ sent'.op \in {"send", "has_listeners"}
            /\ use_caching
            /\ k = sent'.sender
    ]_vars

\* a disconnect that removed nothing has emptied a cache that held entries
C30_Witness ==
  /\ sent.op = "disconnect"
  /\ ~sent.returned
  /\ sent.pruned = 0
  /\ sent.cleared
  /\ receivers # <<>>
  /\ DOMAIN sender_receivers_cache = {}

\* the handles of the entries of list that a send to sender selects: those
\* registered for the sender's identity or for the wildcard
MatchingHandles(list, sender) ==
  LET matching == SelectSeq(list,
                            LAMBDA e : \/ e.lookup_key[2] = NONE_ID
                                       \/ e.lookup_key[2] =
                                            _make_id_sender(sender))
  IN [i \in DOMAIN matching |-> matching[i].receiver]

\* C31: in every reachable state a cache entry for a sender holds the
\* NO_RECEIVERS marker only if no entry of the receiver list matches the
\* sender, and otherwise holds, in their order, the handles of the entries
\* that match the sender now, together with nothing but handles whose
\* referent was collected since (entries a prune has removed from the list);
\* the cache holds no handle of a live receiver that is not registered, so
\* none that was disconnected; without caching the cache stays empty
C31_CacheAgreesWithList ==
  /\ ~use_caching => sender_receivers_cache = <<>>
  /\ \A k \in DOMAIN sender_receivers_cache :
       LET matching == MatchingHandles(receivers, k)
           entry == sender_receivers_cache[k]
       IN
       /\ k \in alive
       /\ IF entry = NO_RECEIVERS
          THEN matching = <<>>
          ELSE /\ entry.handles # <<>>
               /\ SelectSeq(entry.handles,
                            LAMBDA h : h \in Range(matching)) = matching
               /\ \A h \in Range(entry.handles) :
                    h \notin Range(matching) => IsDead(h, alive)

\* a cached list that outlived a prune: it holds a handle whose referent was
\* collected and whose entry is gone from the list, next to a cached
\* NO_RECEIVERS marker for another sender
C31_Witness ==
  /\ ~_dead_receivers
  /\ \E k \in DOMAIN sender_receivers_cache :
       /\ sender_receivers_cache[k] # NO_RECEIVERS
       /\ \E h \in Range(sender_receivers_cache[k].handles) :
            /\ IsDead(h, alive)
            /\ h \notin Range(MatchingHandles(receivers, k))
  /\ \E k \in DOMAIN sender_receivers_cache :
       sender_receivers_cache[k] = NO_RECEIVERS

C40_StoreFrame ==
  [][ /\ last'.op \in {"read_token", "login", "refresh", "authenticate",
                       "generate_jwt"}
           => blacklist' = blacklist
      /\ blacklist' # blacklist =>
           \/ /\ last'.op = "logout"
              /\ last'.status = HTTP_204_NO_CONTENT
              /\ \A e \in (blacklist' \ blacklist) \cup (blacklist \ blacklist') :
                   e.key \in {_make_key(t) : t \in last'.token \cup last'.cookie}
           \/ /\ last'.op = "clear"
              /\ blacklist' = {}
           \/ /\ now' = now + 1
              /\ blacklist' \subseteq blacklist
              /\ \A e \in blacklist \ blacklist' :
                   \E x \in e.expire_at : x <= now'
    ]_vars

\* read_token has refused a revoked token, whose entry is still in the store
C40_Witness ==
  /\ last.op = "read_token"
  /\ last.raised = None
  /\ last.user = Nothing
  /\ is_blacklisted(The(last.token))
  /\ Cardinality(blacklist) = 2

\* the parameters a dependency built for a kind declares
Declared(required_token_type) ==
  LET signature == get_current_user_token(required_token_type, FALSE, TRUE,
                                          TRUE, FALSE).signature
  IN {signature[i] : i \in DOMAIN signature}

\* C34 (as claimed): the dependency that served the last request declares
\* the access token field, declares the refresh token field if and only if
\* it was built for the refresh kind, and read the token of its kind
C34_Original ==
  last.op = "authenticate" =>
    /\ name_to_variable_name(BACKEND_NAME, ACCESS_TOKEN)
         \in Declared(last.kind)
    /\ name_to_variable_name(BACKEND_NAME, REFRESH_TOKEN)
         \in Declared(last.kind) <=> last.kind = REFRESH_TOKEN

\* C35: whenever a dependency returns a principal, a token of the required
\* kind was presented, read_token returns that principal (and the expiry
\* returned with it) for that token and kind, and the principal is active if
\* active is required, verified if verified is required and a superuser if
\* superuser is required, whether optional is true or false
C35_PrincipalMeetsPolicy ==
  (last.op = "authenticate" /\ last.user # Nothing) =>
    /\ last.raised = None
    /\ last.token # Nothing
    /\ Read.raised = None
    /\ Read.user = last.user
    /\ Read.exp = last.exp
    /\ The(last.user) \in users
    /\ flag_active => The(last.user).is_active
    /\ flag_verified => The(last.user).is_verified
    /\ flag_superuser => The(last.user).is_superuser

\* an optional dependency that requires all three flags has returned a
\* principal that has them
C35_Witness ==
  /\ last.op = "authenticate"
  /\ last.user # Nothing
  /\ flag_optional /\ flag_active /\ flag_verified /\ flag_superuser
  /\ last.kind = REFRESH_TOKEN
  /\ The(last.user).is_superuser
  /\ \E u \in users : ~u.is_verified

\* C36 (as claimed): every entry a completed logout writes to the store
\* names a token for which read_token, asked before the logout wrote it,
\* returned the principal that logs out; no entry is written for a refresh
\* cookie that read_token rejected or that belongs to another principal
C36_Original ==
  [][ (last'.op = "logout" /\ last'.status = HTTP_204_NO_CONTENT) =>
        \A e \in blacklist' \ blacklist :
          \E k \in TokenTypes :
            /\ read_token(e.key[2], k).raised = None
            /\ read_token(e.key[2], k).user = last'.user
    ]_vars

\* what a Signal without caching returns: send pairs every live entry that
\* matches the sender with its response, in the order of the list, and
\* has_listeners tells whether there is such an entry; neither raises
Uncached ==
  /\ sent.op \in {"send", "has_listeners"} => sent.raised = None
  /\ sent.op = "send" =>
       [i \in DOMAIN sent.result |-> sent.result[i][1]]
         = [i \in DOMAIN Resolved(sent.sender) |->
              Resolved(sent.sender)[i].receiver.target]
  /\ sent.op = "has_listeners" =>
       sent.returned = (Resolved(sent.sender) # <<>>)

\* C37 (as claimed): after the same operations a Signal with caching has
\* returned from its last send or has_listeners what the Signal without
\* caching returns: the same receivers, the same boolean, and no exception
C37_Original ==
  use_caching => Uncached

\* the step is the body of an `async with self.lock` run by the task that
\* holds the lock, which it leaves free
LockedStep ==
  \E t \in Tasks :
    /\ lock = Some(t)
    /\ tasks[t].pc = "locked"
    /\ tasks'[t].pc \in {"done", "deref"}
    /\ lock' = Nothing

\* C33 (as amended): every write that connect, disconnect and
\* _live_receivers make to the receiver list or to the cache is made by the
\* task that holds the lock; the cache changes without the lock only when
\* the interpreter collects a sender and the WeakKeyDictionary drops its
\* entry; cache reads are made without the lock; send tests the list for
\* emptiness without the lock, every other read of the list is made under
\* the lock, so after a cache miss the lock is taken before the list is read
C33_WritesUnderLock ==
  /\ [](\A t \in Tasks :
          \A a \in tasks[t].accesses :
            /\ a.kind = "write" => a.locked
            /\ (a.object = "receivers" /\ ~a.locked) =>
                 /\ tasks[t].op = "send"
                 /\ tasks[t].pc \in {"done", "lookup"}
                 /\ a.kind = "read"
            /\ (a.object = "cache" /\ a.kind = "read") => ~a.locked)
  /\ [][ /\ receivers' # receivers => LockedStep
         /\ sender_receivers_cache' # sender_receivers_cache =>
              \/ LockedStep
              \/ \E o \in alive \ alive' :
                   /\ o \in DOMAIN sender_receivers_cache
                   /\ sender_receivers_cache'
                        = cache_without(sender_receivers_cache, o)
                   /\ lock' = lock
                   /\ tasks' = tasks
       ]_vars

\* a send that missed the cache has waited for the lock while the other
\* task held it, then read the list and written the cache under the lock
C33_Witness ==
  \E t \in Tasks :
    /\ tasks[t].op = "send"
    /\ tasks[t].pc = "deref"
    /\ tasks[t].missed
    /\ Access("receivers", "read", TRUE) \in tasks[t].accesses
    /\ Access("cache", "write", TRUE) \in tasks[t].accesses
    /\ \E u \in Tasks \ {t} : tasks[u].pc = "lock"

\* C33 (as claimed): the receiver list and the cache change only in a step
\* of the task that holds the lock, and the list is read only under the lock
C33_Original ==
  /\ [](\A t \in Tasks :
          \A a \in tasks[t].accesses :
            (a.kind = "write" \/ a.object = "receivers") => a.locked)
  /\ [][ (\/ receivers' # receivers
          \/ sender_receivers_cache' # sender_receivers_cache)
           => LockedStep
       ]_vars

\* C32: with caching, in every interleaving of two tasks' calls and of
\* garbage collection: the cache never holds a stale list (an entry for a
\* sender holds NO_RECEIVERS only while no entry of the receiver list
\* matches the sender, and otherwise the handles of the entries that match
\* it now, plus at most handles of collected receivers); a call that misses
\* the cache finds, under the lock, exactly the handles registered for its
\* sender or for the wildcard, and leaves them in the cache; a call that
\* hits the cache gets the live receivers registered for its sender or the
\* wildcard; so two sends for one sender that both missed an empty cache
\* each invoke those receivers
C32_RacingSendsAgree ==
  /\ [](\A k \in DOMAIN sender_receivers_cache :
          LET matching == MatchingHandles(receivers, k)
              entry == sender_receivers_cache[k]
          IN IF entry = NO_RECEIVERS
             THEN matching = <<>>
             ELSE /\ SelectSeq(entry.handles,
                               LAMBDA h : h \in Range(matching)) = matching
                  /\ \A h \in Range(entry.handles) :
                       h \notin Range(matching) => IsDead(h, alive))
  /\ [][\A t \in Tasks :
          LET sender == tasks[t].call.sender
              matching == MatchingHandles(receivers', sender)
              live == SelectSeq(matching, LAMBDA h : ~IsDead(h, alive'))
              targets == [i \in DOMAIN live |-> live[i].target]
          IN
          /\ (tasks[t].pc = "locked" /\ tasks'[t].pc = "deref") =>
               /\ tasks'[t].receivers = Some(matching)
               /\ use_caching =>
                    sender_receivers_cache'[sender]
                      = IF matching = <<>> THEN NO_RECEIVERS
                                           ELSE Cached(matching)
          /\ (tasks[t].pc = "lookup" /\ tasks'[t].pc = "gather") =>
               tasks'[t].called = targets
          /\ (tasks[t].pc = "lookup" /\ tasks'[t].pc = "done") =>
               tasks'[t].returned = (targets # <<>>)
          /\ (tasks[t].pc = "deref" /\ tasks'[t].pc = "gather") =>
               \A c \in Range(tasks'[t].called) :
                 \E h \in Range(The(tasks[t].receivers)) :
                   h.target = c /\ ~IsDead(h, alive)
       ]_vars

\* two sends for one sender have both missed the cache, both have resolved
\* the same receivers and are about to invoke them, and the cache holds the
\* list
C32_Witness ==
  /\ use_caching
  /\ \A t \in Tasks :
       /\ tasks[t].op = "send"
       /\ tasks[t].call.sender = "s2"
       /\ tasks[t].missed
       /\ tasks[t].pc = "gather"
       /\ Len(tasks[t].called) = 2
  /\ tasks["t1"].called = tasks["t2"].called
  /\ sender_receivers_cache["s2"] # NO_RECEIVERS

\* C39: once disconnect has returned True for a registration, and until its
\* key is connected again, in every interleaving of two tasks' calls, with
\* and without caching: the registration is not in the receiver list; a send
\* or has_listeners that starts afterwards resolves, from the cache or under
\* the lock, only receivers of registrations still in the list for its
\* sender or the wildcard, so that a send invokes the disconnected
\* registration's receiver only if another registration of that receiver
\* matches the sender, and has_listeners returns True only if a live
\* registration other than the disconnected one matches
C39_DisconnectedStaysOut ==
  /\ [](\A t \in Tasks :
          /\ (tasks[t].pc = "done" /\ tasks[t].removed # Nothing) =>
               lookup_key_of(tasks[t].call.receiver, tasks[t].call.sender,
                             tasks[t].call.dispatch_uid)
                 \notin KeysOf(receivers)
          /\ \A b \in tasks[t].barred :
               b.lookup_key \notin KeysOf(receivers))
  /\ [][\A t \in Tasks :
          LET sender == tasks[t].call.sender
              barred == {b.lookup_key : b \in tasks[t].barred}
              Allowed(list) ==
                Range(MatchingHandles(
                        SelectSeq(list,
                                  LAMBDA e : e.lookup_key \notin barred),
                        sender))
          IN
          tasks[t].barred # {} =>
            /\ (tasks[t].pc = "lookup" /\ tasks'[t].pc = "gather") =>
                 /\ \A h \in Range(The(tasks'[t].receivers)) :
                      IsDead(h, alive) \/ h \in Allowed(receivers)
                 /\ \A c \in Range(tasks'[t].called) :
                      \E h \in Allowed(receivers) :
                        h.target = c /\ ~IsDead(h, alive)
            /\ (tasks[t].pc = "lookup" /\ tasks'[t].pc = "done") =>
                 (tasks'[t].returned =>
                    \E h \in Allowed(receivers) : ~IsDead(h, alive))
            /\ (tasks[t].pc = "locked" /\ tasks'[t].pc = "deref") =>
                 Range(The(tasks'[t].receivers)) = Allowed(receivers')
            /\ (tasks[t].pc = "deref" /\ tasks'[t].pc = "gather") =>
                 \A c \in Range(tasks'[t].called) :
                   \E h \in Range(The(tasks[t].receivers)) :
                     h.target = c /\ ~IsDead(h, alive)
            /\ (tasks[t].pc = "deref" /\ tasks'[t].pc = "done") =>
                 (tasks'[t].returned =>
                    \E h \in Range(The(tasks[t].receivers)) :
                      ~IsDead(h, alive))
       ]_vars

\* with caching, a send that started after a disconnect returned True has
\* missed the cache the disconnect cleared, and is about to invoke the
\* receivers that are left
C39_Witness ==
  /\ use_caching
  /\ \E t \in Tasks :
       /\ tasks[t].op = "send"
       /\ tasks[t].pc = "gather"
       /\ tasks[t].missed
       /\ tasks[t].barred # {}
       /\ tasks[t].called # <<>>
       /\ \E u \in Tasks \ {t} :
            /\ tasks[u].op = "disconnect"
            /\ tasks[u].pc = "done"
            /\ tasks[u].returned

\* C39 as stated: a send for the registration's sender that starts after
\* disconnect returned True for the registration does not invoke the
\* registration's receiver, and the registration is not in the list
C39_Original ==
  \A t \in Tasks :
    \A b \in tasks[t].barred :
      /\ b.lookup_key \notin KeysOf(receivers)
      /\ ( /\ tasks[t].op = "send"
           /\ tasks[t].pc = "gather"
           /\ b.lookup_key[2] \in {NONE_ID,
                                     _make_id_sender(tasks[t].call.sender)} )
           => b.receiver \notin Range(tasks[t].called)

====
